---- MODULE Spec2Model ----
(***************************************************************************)
(* Tag encoding core of server/libs/flow-metrics/tag.go: the Code bit      *)
(* space, the Field/Tag record, the metrics table enumeration, the text    *)
(* encoder MarshalTo, the column generator GenTagColumns, the wire decoder *)
(* ReadFromPB and the Field/Tag pools.                                     *)
(*                                                                         *)
(* A Code (uint64 bitmask) is the set of its bit positions: c&X != 0 is    *)
(* X \in c, c|X is c \cup {X}, c&^X is c \ {X}.  A flag is named by its    *)
(* bit position (the Go constant is 1 << position).                        *)
(***************************************************************************)
EXTENDS Integers, Sequences, FiniteSets, TLC

(* ------------------------------------------------------------------ *)
(* Code flags: bit positions                                           *)
(* ------------------------------------------------------------------ *)
IP == 0
L3EpcID == 1
L3Device == 2
SubnetID == 3
RegionID == 4
PodNodeID == 5
HostID == 6
AZID == 7
PodGroupID == 8
PodNSID == 9
PodID == 10
MAC == 11
PodClusterID == 12
ServiceID == 13
Resource == 14
GPID == 15

IPPath == 20
L3EpcIDPath == 21
L3DevicePath == 22
SubnetIDPath == 23
RegionIDPath == 24
PodNodeIDPath == 25
HostIDPath == 26
AZIDPath == 27
PodGroupIDPath == 28
PodNSIDPath == 29
PodIDPath == 30
MACPath == 31
PodClusterIDPath == 32
ServiceIDPath == 33
ResourcePath == 34
GPIDPath == 35

Direction == 40
ACLGID == 41
Protocol == 42
ServerPort == 43
TAPType == 45
VTAPID == 47
TAPSide == 48
TAPPort == 49
IsKeyService == 50
L7Protocol == 51
SignalSource == 52

TunnelIPID == 62

PrimaryFlags ==
    {IP, L3EpcID, L3Device, SubnetID, RegionID, PodNodeID, HostID, AZID,
     PodGroupID, PodNSID, PodID, MAC, PodClusterID, ServiceID, Resource, GPID}

PathFlags ==
    {IPPath, L3EpcIDPath, L3DevicePath, SubnetIDPath, RegionIDPath,
     PodNodeIDPath, HostIDPath, AZIDPath, PodGroupIDPath, PodNSIDPath,
     PodIDPath, MACPath, PodClusterIDPath, ServiceIDPath, ResourcePath, GPIDPath}

ExtendedFlags ==
    {Direction, ACLGID, Protocol, ServerPort, TAPType, VTAPID, TAPSide,
     TAPPort, IsKeyService, L7Protocol, SignalSource, TunnelIPID}

AllFlags == PrimaryFlags \cup PathFlags \cup ExtendedFlags

\* HasEdgeTagField with the mask 0xffffe00000, bits 21..39
HasEdgeTagFieldNarrow(c) == c \cap (21..39) # {}

\* c&0xfffff00000 != 0: the mask is bits 20..39
HasEdgeTagField(c) == c \cap (20..39) # {}

(* ------------------------------------------------------------------ *)
(* Side types, directions, TAP sides, roles                            *)
(* ------------------------------------------------------------------ *)
NodeSide == 8
HypervisorSide == 16
GatewayHypervisorSide == 24
GatewaySide == 32
ProcessSide == 40
AppSide == 48

CLIENT_SERVER_MASK == 7
SIDE_TYPE_MASK == 248

ClientToServer == 1
ServerToClient == 2
LocalToLocal == 4

ROLE_CLIENT == 0
ROLE_SERVER == 1
ROLE_LOCAL == 2
ROLE_REST == 3

\* a & b and a | b of two unsigned numbers
RECURSIVE BitAnd(_, _)
BitAnd(a, b) ==
    IF a = 0 \/ b = 0 THEN 0
    ELSE (a % 2) * (b % 2) + 2 * BitAnd(a \div 2, b \div 2)

RECURSIVE BitOr(_, _)
BitOr(a, b) ==
    IF a = 0 THEN b
    ELSE IF b = 0 THEN a
    ELSE (IF a % 2 = 1 \/ b % 2 = 1 THEN 1 ELSE 0) + 2 * BitOr(a \div 2, b \div 2)

\* DirectionEnum.IsGateway for a uint8 d
IsGateway(d) ==
    BitAnd(BitAnd(d, SIDE_TYPE_MASK), BitOr(GatewaySide, GatewayHypervisorSide)) # 0

\* d & _CLIENT_SERVER_MASK for a uint8 d: the low three bits
ClientServerBits(d) == d % (CLIENT_SERVER_MASK + 1)

ToRole(d) ==
    CASE ClientServerBits(d) = ClientToServer -> ROLE_CLIENT
      [] ClientServerBits(d) = ServerToClient -> ROLE_SERVER
      [] ClientServerBits(d) = LocalToLocal -> ROLE_LOCAL
      [] OTHER -> ROLE_REST

Rest == 0
Client == 1
Server == 2
Local == 4
ClientNode == Client + NodeSide
ServerNode == Server + NodeSide
ClientHypervisor == Client + HypervisorSide
ServerHypervisor == Server + HypervisorSide
ClientGatewayHypervisor == Client + GatewayHypervisorSide
ServerGatewayHypervisor == Server + GatewayHypervisorSide
ClientGateway == Client + GatewaySide
ServerGateway == Server + GatewaySide
ClientProcess == Client + ProcessSide
ServerProcess == Server + ProcessSide
ClientApp == Client + AppSide
ServerApp == Server + AppSide
App == AppSide

\* The composite literal []string{Rest: "rest", ..., App: "app"}: a slice of
\* length App+1 whose unnamed entries are the empty string.
TAPSideEnumsStringNamed ==
    (Rest :> "rest") @@ (Client :> "c") @@ (Server :> "s") @@ (Local :> "local")
    @@ (ClientNode :> "c-nd") @@ (ServerNode :> "s-nd")
    @@ (ClientHypervisor :> "c-hv") @@ (ServerHypervisor :> "s-hv")
    @@ (ClientGatewayHypervisor :> "c-gw-hv") @@ (ServerGatewayHypervisor :> "s-gw-hv")
    @@ (ClientGateway :> "c-gw") @@ (ServerGateway :> "s-gw")
    @@ (ClientProcess :> "c-p") @@ (ServerProcess :> "s-p")
    @@ (ClientApp :> "c-app") @@ (ServerApp :> "s-app") @@ (App :> "app")

TAPSideEnumsString ==
    [s \in 0..App |->
        IF s \in DOMAIN TAPSideEnumsStringNamed THEN TAPSideEnumsStringNamed[s] ELSE ""]

\* TAPSideEnum.String: TAPSideEnumsString[s], an index-out-of-range panic
\* when s is past the end of the slice.
TAPSideString(s) ==
    IF s \in DOMAIN TAPSideEnumsString
    THEN [panic |-> FALSE, str |-> TAPSideEnumsString[s]]
    ELSE [panic |-> TRUE, str |-> ""]

(* ------------------------------------------------------------------ *)
(* Text: byte order of strings, decimal and hexadecimal formatting     *)
(* ------------------------------------------------------------------ *)
\* Byte value of every character that occurs in a key or a token.
Ord ==
    ("-" :> 45) @@ ("." :> 46) @@ ("0" :> 48) @@ ("1" :> 49) @@ ("2" :> 50)
    @@ ("3" :> 51) @@ ("4" :> 52) @@ ("5" :> 53) @@ ("6" :> 54) @@ ("7" :> 55)
    @@ ("8" :> 56) @@ ("9" :> 57) @@ (":" :> 58) @@ ("_" :> 95) @@ ("a" :> 97)
    @@ ("b" :> 98) @@ ("c" :> 99) @@ ("d" :> 100) @@ ("e" :> 101) @@ ("f" :> 102)
    @@ ("g" :> 103) @@ ("h" :> 104) @@ ("i" :> 105) @@ ("j" :> 106) @@ ("k" :> 107)
    @@ ("l" :> 108) @@ ("m" :> 109) @@ ("n" :> 110) @@ ("o" :> 111) @@ ("p" :> 112)
    @@ ("q" :> 113) @@ ("r" :> 114) @@ ("s" :> 115) @@ ("t" :> 116) @@ ("u" :> 117)
    @@ ("v" :> 118) @@ ("w" :> 119) @@ ("x" :> 120) @@ ("y" :> 121) @@ ("z" :> 122)

CharAt(s, i) == SubSeq(s, i, i)

RECURSIVE LexLessFrom(_, _, _)
LexLessFrom(a, b, i) ==
    IF i > Len(b) THEN FALSE
    ELSE IF i > Len(a) THEN TRUE
    ELSE IF Ord[CharAt(a, i)] < Ord[CharAt(b, i)] THEN TRUE
    ELSE IF Ord[CharAt(a, i)] > Ord[CharAt(b, i)] THEN FALSE
    ELSE LexLessFrom(a, b, i + 1)

\* a < b in the byte-wise (lexicographic) order of strings
LexLess(a, b) == LexLessFrom(a, b, 1)

HexDigits == <<"0", "1", "2", "3", "4", "5", "6", "7", "8", "9", "a", "b", "c", "d", "e", "f">>

\* strconv.FormatUint(n, 10)
RECURSIVE FormatUint(_)
FormatUint(n) ==
    IF n < 10 THEN HexDigits[n + 1]
    ELSE FormatUint(n \div 10) \o HexDigits[(n % 10) + 1]

\* strconv.FormatInt(n, 10)
FormatInt(n) == IF n < 0 THEN "-" \o FormatUint(0 - n) ELSE FormatUint(n)

\* strconv.FormatUint(n, 16) of a value below 65536
RECURSIVE FormatHex(_)
FormatHex(n) ==
    IF n < 16 THEN HexDigits[n + 1]
    ELSE FormatHex(n \div 16) \o HexDigits[(n % 16) + 1]

(* ------------------------------------------------------------------ *)
(* IP addresses                                                        *)
(* ------------------------------------------------------------------ *)
IPv4len == 4
IPv6len == 16

\* A uint32 address is kept as its two 16-bit halves.
\* binary.BigEndian.Uint32(b[:4])
BigEndianUint32(b) == [hi |-> b[1] * 256 + b[2], lo |-> b[3] * 256 + b[4]]

\* utils.IpFromUint32(ip).String(): the dotted form of the big-endian bytes
IpFromUint32String(ip) ==
    FormatUint(ip.hi \div 256) \o "." \o FormatUint(ip.hi % 256) \o "."
    \o FormatUint(ip.lo \div 256) \o "." \o FormatUint(ip.lo % 256)

\* The eight 16-bit groups of a 16-byte address
Groups(b) == [k \in 1..8 |-> b[2 * k - 1] * 256 + b[2 * k]]

RECURSIVE ZeroRun(_, _)
ZeroRun(g, k) == IF k > 8 \/ g[k] # 0 THEN 0 ELSE 1 + ZeroRun(g, k + 1)

RECURSIVE EmitGroups(_, _, _, _)
EmitGroups(g, k, e0, e1) ==
    IF k > 8 THEN ""
    ELSE IF k = e0
         THEN "::" \o (IF e1 > 8 THEN ""
                       ELSE FormatHex(g[e1]) \o EmitGroups(g, e1 + 1, e0, e1))
         ELSE (IF k > 1 THEN ":" ELSE "") \o FormatHex(g[k]) \o EmitGroups(g, k + 1, e0, e1)

IsV4Mapped(b) == (\A i \in 1..10 : b[i] = 0) /\ b[11] = 255 /\ b[12] = 255

\* net.IP.String of a nil (empty) or 16-byte address: "<nil>", the dotted form
\* of an IPv4-mapped address, else the groups in hex with the first longest
\* run of two or more zero groups written "::".
IP6String(b) ==
    IF Len(b) = 0 THEN "<nil>"
    ELSE IF IsV4Mapped(b)
         THEN FormatUint(b[13]) \o "." \o FormatUint(b[14]) \o "."
              \o FormatUint(b[15]) \o "." \o FormatUint(b[16])
    ELSE LET g == Groups(b)
             longest == CHOOSE n \in 0..8 :
                            /\ \E k \in 1..8 : ZeroRun(g, k) = n
                            /\ \A k \in 1..8 : ZeroRun(g, k) <= n
             e0 == IF longest < 2 THEN 0
                   ELSE CHOOSE k \in 1..8 :
                            /\ ZeroRun(g, k) = longest
                            /\ \A j \in 1..(k - 1) : ZeroRun(g, j) < longest
         IN  EmitGroups(g, 1, e0, e0 + longest)

(* ------------------------------------------------------------------ *)
(* TapPort: a uint64 kept as its sixteen hex digits, most significant  *)
(* first                                                               *)
(* ------------------------------------------------------------------ *)
TAP_PORT_STR_LEN == 8

ZeroTapPort == [i \in 1..16 |-> 0]

RECURSIVE HexOf(_)
HexOf(ns) == IF Len(ns) = 0 THEN "" ELSE HexDigits[Head(ns) + 1] \o HexOf(Tail(ns))

RECURSIVE StripZeros(_)
StripZeros(ns) == IF Len(ns) > 1 /\ Head(ns) = 0 THEN StripZeros(Tail(ns)) ELSE ns

\* putTAPPort: "00000000" overwritten from the right by the hex form, or the
\* last eight digits of a longer hex form
putTAPPort(tapPort) ==
    LET s == HexOf(StripZeros(tapPort))
    IN  IF TAP_PORT_STR_LEN >= Len(s)
        THEN SubSeq("00000000", 1, TAP_PORT_STR_LEN - Len(s)) \o s
        ELSE SubSeq(s, Len(s) - TAP_PORT_STR_LEN + 1, Len(s))

\* datatype.TapPort.SplitToPortTypeTunnel: the low 32 bits, the type in bits
\* 60..63, the NAT source in bits 36..39 and the tunnel type in bits 32..35
SplitToPortTypeTunnel(tapPort) ==
    [TapPort |-> SubSeq(tapPort, 9, 16), TapPortType |-> tapPort[1],
     NatSource |-> tapPort[7], TunnelType |-> tapPort[8]]

(* ------------------------------------------------------------------ *)
(* Field and Tag                                                       *)
(* ------------------------------------------------------------------ *)
ZeroIP == [hi |-> 0, lo |-> 0]

\* Field{}: every attribute at its zero value.  IP6 and IP61 are byte
\* sequences; the nil slice is the empty sequence.
ZeroField ==
    [GlobalThreadID |-> 0,
     IP6 |-> <<>>, MAC |-> 0, IP |-> ZeroIP, L3EpcID |-> 0, L3DeviceID |-> 0,
     L3DeviceType |-> 0, RegionID |-> 0, SubnetID |-> 0, HostID |-> 0,
     PodNodeID |-> 0, AZID |-> 0, PodGroupID |-> 0, PodNSID |-> 0, PodID |-> 0,
     PodClusterID |-> 0, ServiceID |-> 0, AutoInstanceID |-> 0,
     AutoInstanceType |-> 0, AutoServiceID |-> 0, AutoServiceType |-> 0, GPID |-> 0,
     MAC1 |-> 0, IP61 |-> <<>>, IP1 |-> ZeroIP, L3EpcID1 |-> 0, L3DeviceID1 |-> 0,
     L3DeviceType1 |-> 0, RegionID1 |-> 0, SubnetID1 |-> 0, HostID1 |-> 0,
     PodNodeID1 |-> 0, AZID1 |-> 0, PodGroupID1 |-> 0, PodNSID1 |-> 0, PodID1 |-> 0,
     PodClusterID1 |-> 0, ServiceID1 |-> 0, AutoInstanceID1 |-> 0,
     AutoInstanceType1 |-> 0, AutoServiceID1 |-> 0, AutoServiceType1 |-> 0, GPID1 |-> 0,
     ACLGID |-> 0, Role |-> 0, Protocol |-> 0, ServerPort |-> 0, VTAPID |-> 0,
     OrgId |-> 0, TeamID |-> 0, TAPPort |-> ZeroTapPort,
     TapPort |-> SubSeq(ZeroTapPort, 9, 16), TapPortType |-> 0, NatSource |-> 0,
     TunnelType |-> 0,
     TAPSide |-> 0, TAPSideStr |-> "", TAPType |-> 0, IsIPv4 |-> 0, IsKeyService |-> 0,
     L7Protocol |-> 0, AppService |-> "", AppInstance |-> "", Endpoint |-> "",
     BizType |-> 0, SignalSource |-> 0, TagSource |-> 0, TagSource1 |-> 0,
     TunnelIPID |-> 0]

\* Tag{}: the embedded Field, the Code and the id
ZeroTag == ZeroField @@ [Code |-> {}, id |-> ""]

(* ------------------------------------------------------------------ *)
(* Text encoder                                                        *)
(* ------------------------------------------------------------------ *)
\* One ",key=value" segment
Seg(k, v) == <<[key |-> k, val |-> v]>>

\* The cases of the switch on t.TAPSide in MarshalTo
TAPSideSwitch ==
    (Rest :> "rest") @@ (Client :> "c") @@ (Server :> "s")
    @@ (ClientNode :> "c-nd") @@ (ServerNode :> "s-nd")
    @@ (ClientHypervisor :> "c-hv") @@ (ServerHypervisor :> "s-hv")
    @@ (ClientGatewayHypervisor :> "c-gw-hv") @@ (ServerGatewayHypervisor :> "s-gw-hv")
    @@ (ClientGateway :> "c-gw") @@ (ServerGateway :> "s-gw")

\* The if-blocks of MarshalTo in source order: the Code bit each tests and the
\* segments it writes.
MarshalBlocks(t) ==
    <<
       [bit |-> ACLGID,
        segs |-> Seg("acl_gid", FormatUint(t.ACLGID))],
       [bit |-> AZID,
        segs |-> Seg("az_id", FormatUint(t.AZID))],
       [bit |-> AZIDPath,
        segs |-> Seg("az_id_0", FormatUint(t.AZID))
                \o Seg("az_id_1", FormatUint(t.AZID1))],
       [bit |-> Direction,
        segs |-> Seg("role", IF t.Role = ROLE_CLIENT THEN "c2s"
                                      ELSE IF t.Role = ROLE_SERVER THEN "s2c"
                                      ELSE IF t.Role = ROLE_LOCAL THEN "local"
                                      ELSE "rest")],
       [bit |-> GPID,
        segs |-> Seg("gprocess_id", FormatUint(t.GPID))],
       [bit |-> GPIDPath,
        segs |-> Seg("gprocess_id_0", FormatUint(t.GPID))
                \o Seg("gprocess_id_1", FormatUint(t.GPID1))],
       [bit |-> HostID,
        segs |-> Seg("host_id", FormatUint(t.HostID))],
       [bit |-> HostIDPath,
        segs |-> Seg("host_id_0", FormatUint(t.HostID))
                \o Seg("host_id_1", FormatUint(t.HostID1))],
       [bit |-> IP,
        segs |-> IF t.IsIPv4 = 0
                THEN Seg("ip", IP6String(t.IP6)) \o Seg("ip_version", "6")
                ELSE Seg("ip", IpFromUint32String(t.IP)) \o Seg("ip_version", "4")],
       [bit |-> IPPath,
        segs |-> IF t.IsIPv4 = 0
                THEN Seg("ip_0", IP6String(t.IP6)) \o Seg("ip_1", IP6String(t.IP61))
                     \o Seg("is_version", "6")
                ELSE Seg("ip_0", IpFromUint32String(t.IP)) \o Seg("ip_1", IpFromUint32String(t.IP1))
                     \o Seg("ip_version", "4")],
       [bit |-> IsKeyService,
        segs |-> Seg("is_key_service", IF t.IsKeyService = 1 THEN "1" ELSE "0")],
       [bit |-> L3Device,
        segs |-> Seg("l3_device_id", FormatUint(t.L3DeviceID))
                \o Seg("l3_device_type", FormatUint(t.L3DeviceType))],
       [bit |-> L3DevicePath,
        segs |-> Seg("l3_device_id_0", FormatUint(t.L3DeviceID))
                \o Seg("l3_device_id_1", FormatUint(t.L3DeviceID1))
                \o Seg("l3_device_type_0", FormatUint(t.L3DeviceType))
                \o Seg("l3_device_type_1", FormatUint(t.L3DeviceType1))],
       [bit |-> L3EpcID,
        segs |-> Seg("l3_epc_id", FormatInt(t.L3EpcID))],
       [bit |-> L3EpcIDPath,
        segs |-> Seg("l3_epc_id_0", FormatInt(t.L3EpcID))
                \o Seg("l3_epc_id_1", FormatInt(t.L3EpcID1))],
       [bit |-> L7Protocol,
        segs |-> Seg("l7_protocol", FormatUint(t.L7Protocol)) \o Seg("app_service", t.AppService)
                \o Seg("app_instance", t.AppInstance) \o Seg("endpoint", t.Endpoint)
                \o Seg("biz_type", FormatUint(t.BizType))],
       [bit |-> MAC,
        segs |-> <<>>],
       [bit |-> MACPath,
        segs |-> <<>>],
       [bit |-> PodClusterID,
        segs |-> Seg("pod_cluster_id", FormatUint(t.PodClusterID))],
       [bit |-> PodClusterIDPath,
        segs |-> Seg("pod_cluster_id_0", FormatUint(t.PodClusterID))
                \o Seg("pod_cluster_id_1", FormatUint(t.PodClusterID1))],
       [bit |-> PodGroupID,
        segs |-> Seg("pod_group_id", FormatUint(t.PodGroupID))],
       [bit |-> PodGroupIDPath,
        segs |-> Seg("pod_group_id_0", FormatUint(t.PodGroupID))
                \o Seg("pod_group_id_1", FormatUint(t.PodGroupID1))],
       [bit |-> PodID,
        segs |-> Seg("pod_id", FormatUint(t.PodID))],
       [bit |-> PodIDPath,
        segs |-> Seg("pod_id_0", FormatUint(t.PodID))
                \o Seg("pod_id_1", FormatUint(t.PodID1))],
       [bit |-> PodNodeID,
        segs |-> Seg("pod_node_id", FormatUint(t.PodNodeID))],
       [bit |-> PodNodeIDPath,
        segs |-> Seg("pod_node_id_0", FormatUint(t.PodNodeID))
                \o Seg("pod_node_id_1", FormatUint(t.PodNodeID1))],
       [bit |-> PodNSID,
        segs |-> Seg("pod_ns_id", FormatUint(t.PodNSID))],
       [bit |-> PodNSIDPath,
        segs |-> Seg("pod_ns_id_0", FormatUint(t.PodNSID))
                \o Seg("pod_ns_id_1", FormatUint(t.PodNSID1))],
       [bit |-> Protocol,
        segs |-> Seg("protocol", FormatUint(t.Protocol))],
       [bit |-> RegionID,
        segs |-> Seg("region_id", FormatUint(t.RegionID))],
       [bit |-> RegionIDPath,
        segs |-> Seg("region_id_0", FormatUint(t.RegionID))
                \o Seg("region_id_1", FormatUint(t.RegionID1))],
       [bit |-> Resource,
        segs |-> Seg("auto_instance_id", FormatUint(t.AutoInstanceID))
                \o Seg("auto_instance_type", FormatUint(t.AutoInstanceType))
                \o Seg("auto_service_id", FormatUint(t.AutoServiceID))
                \o Seg("auto_service_type", FormatUint(t.AutoServiceType))],
       [bit |-> ResourcePath,
        segs |-> Seg("auto_instance_id_0", FormatUint(t.AutoInstanceID))
                \o Seg("auto_instance_type_0", FormatUint(t.AutoInstanceType))
                \o Seg("auto_service_id_0", FormatUint(t.AutoServiceID))
                \o Seg("auto_service_type_0", FormatUint(t.AutoServiceType))
                \o Seg("auto_instance_id_1", FormatUint(t.AutoInstanceID1))
                \o Seg("auto_instance_type_1", FormatUint(t.AutoInstanceType1))
                \o Seg("auto_service_id_1", FormatUint(t.AutoServiceID1))
                \o Seg("auto_service_type_1", FormatUint(t.AutoServiceType1))],
       [bit |-> SignalSource,
        segs |-> Seg("signal_source", FormatUint(t.SignalSource))],
       [bit |-> ServerPort,
        segs |-> Seg("server_port", FormatUint(t.ServerPort))],
       [bit |-> ServiceID,
        segs |-> Seg("service_id", FormatUint(t.ServiceID))],
       [bit |-> ServiceIDPath,
        segs |-> Seg("service_id_0", FormatUint(t.ServiceID))
                \o Seg("service_id_1", FormatUint(t.ServiceID1))],
       [bit |-> SubnetID,
        segs |-> Seg("subnet_id", FormatUint(t.SubnetID))],
       [bit |-> SubnetIDPath,
        segs |-> Seg("subnet_id_0", FormatUint(t.SubnetID))
                \o Seg("subnet_id_1", FormatUint(t.SubnetID1))],
       [bit |-> TunnelIPID,
        segs |-> Seg("tunnel_ip_id", FormatUint(t.TunnelIPID))],
       [bit |-> TAPPort,
        segs |-> Seg("capture_nic", putTAPPort(t.TAPPort))],
       [bit |-> TAPSide,
        segs |-> IF t.TAPSide \in DOMAIN TAPSideSwitch
                THEN Seg("observation_point", TAPSideSwitch[t.TAPSide]) ELSE <<>>],
       [bit |-> TAPType,
        segs |-> Seg("capture_network_type_id", FormatUint(t.TAPType))],
       [bit |-> VTAPID,
        segs |-> Seg("agent_id", FormatUint(t.VTAPID))
                \o Seg("team_id", FormatUint(t.TeamID))]
    >>

RECURSIVE FlattenSegs(_, _, _)
FlattenSegs(blocks, code, i) ==
    IF i > Len(blocks) THEN <<>>
    ELSE (IF blocks[i].bit \in code THEN blocks[i].segs ELSE <<>>)
         \o FlattenSegs(blocks, code, i + 1)

\* MarshalTo writing the _tid segment whatever GlobalThreadID is
MarshalToAlwaysTid(t) ==
    Seg("_tid", FormatUint(t.GlobalThreadID))
    \o FlattenSegs(MarshalBlocks(t), t.Code, 1)

\* Tag.MarshalTo: the segments written, in order (the buffer is large enough)
MarshalTo(t) ==
    (IF t.GlobalThreadID # 0 THEN Seg("_tid", FormatUint(t.GlobalThreadID)) ELSE <<>>)
    \o FlattenSegs(MarshalBlocks(t), t.Code, 1)

RECURSIVE SegsText(_)
SegsText(segs) ==
    IF Len(segs) = 0 THEN ""
    ELSE "," \o Head(segs).key \o "=" \o Head(segs).val \o SegsText(Tail(segs))

\* Tag.ToKVString: the bytes MarshalTo writes
ToKVString(t) == SegsText(MarshalTo(t))

Keys(segs) == [i \in 1..Len(segs) |-> segs[i].key]

(* ------------------------------------------------------------------ *)
(* Column generator                                                    *)
(* ------------------------------------------------------------------ *)
\* The if-blocks of GenTagColumns in source order: the Code bit each tests and
\* the names of the columns it appends.
ColumnBlocks ==
    <<
       [bit |-> ACLGID,
        segs |-> <<"acl_gid">>],
       [bit |-> AZID,
        segs |-> <<"az_id">>],
       [bit |-> AZIDPath,
        segs |-> <<"az_id_0", "az_id_1">>],
       [bit |-> Direction,
        segs |-> <<"role">>],
       [bit |-> GPID,
        segs |-> <<"gprocess_id">>],
       [bit |-> GPIDPath,
        segs |-> <<"gprocess_id_0", "gprocess_id_1">>],
       [bit |-> HostID,
        segs |-> <<"host_id">>],
       [bit |-> HostIDPath,
        segs |-> <<"host_id_0", "host_id_1">>],
       [bit |-> IP,
        segs |-> <<"ip4", "ip6", "is_ipv4", "tag_source">>],
       [bit |-> IPPath,
        segs |-> <<"ip4_0", "ip4_1", "ip6_0", "ip6_1", "is_ipv4", "tag_source_0", "tag_source_1">>],
       [bit |-> IsKeyService,
        segs |-> <<"is_key_service">>],
       [bit |-> L3Device,
        segs |-> <<"l3_device_id", "l3_device_type">>],
       [bit |-> L3DevicePath,
        segs |-> <<"l3_device_id_0", "l3_device_id_1", "l3_device_type_0", "l3_device_type_1">>],
       [bit |-> L3EpcID,
        segs |-> <<"l3_epc_id">>],
       [bit |-> L3EpcIDPath,
        segs |-> <<"l3_epc_id_0", "l3_epc_id_1">>],
       [bit |-> L7Protocol,
        segs |-> <<"l7_protocol", "app_service", "app_instance", "endpoint", "biz_type">>],
       [bit |-> MAC,
        segs |-> << >>],
       [bit |-> MACPath,
        segs |-> << >>],
       [bit |-> PodClusterID,
        segs |-> <<"pod_cluster_id">>],
       [bit |-> PodClusterIDPath,
        segs |-> <<"pod_cluster_id_0", "pod_cluster_id_1">>],
       [bit |-> PodGroupID,
        segs |-> <<"pod_group_id">>],
       [bit |-> PodGroupIDPath,
        segs |-> <<"pod_group_id_0", "pod_group_id_1">>],
       [bit |-> PodID,
        segs |-> <<"pod_id">>],
       [bit |-> PodIDPath,
        segs |-> <<"pod_id_0", "pod_id_1">>],
       [bit |-> PodNodeID,
        segs |-> <<"pod_node_id">>],
       [bit |-> PodNodeIDPath,
        segs |-> <<"pod_node_id_0", "pod_node_id_1">>],
       [bit |-> PodNSID,
        segs |-> <<"pod_ns_id">>],
       [bit |-> PodNSIDPath,
        segs |-> <<"pod_ns_id_0", "pod_ns_id_1">>],
       [bit |-> Protocol,
        segs |-> <<"protocol">>],
       [bit |-> RegionID,
        segs |-> <<"region_id">>],
       [bit |-> RegionIDPath,
        segs |-> <<"region_id_0", "region_id_1">>],
       [bit |-> Resource,
        segs |-> <<"auto_instance_id", "auto_instance_type", "auto_service_id", "auto_service_type">>],
       [bit |-> ResourcePath,
        segs |-> <<"auto_instance_id_0", "auto_instance_type_0", "auto_service_id_0", "auto_service_type_0", "auto_instance_id_1", "auto_instance_type_1", "auto_service_id_1", "auto_service_type_1">>],
       [bit |-> SignalSource,
        segs |-> <<"signal_source">>],
       [bit |-> ServiceID,
        segs |-> <<"service_id">>],
       [bit |-> ServiceIDPath,
        segs |-> <<"service_id_0", "service_id_1">>],
       [bit |-> ServerPort,
        segs |-> <<"server_port">>],
       [bit |-> SubnetID,
        segs |-> <<"subnet_id">>],
       [bit |-> SubnetIDPath,
        segs |-> <<"subnet_id_0", "subnet_id_1">>],
       [bit |-> TunnelIPID,
        segs |-> <<"tunnel_ip_id">>],
       [bit |-> TAPPort,
        segs |-> <<"capture_nic_type", "tunnel_type", "capture_nic", "nat_source">>],
       [bit |-> TAPSide,
        segs |-> <<"observation_point">>],
       [bit |-> TAPType,
        segs |-> <<"capture_network_type_id">>],
       [bit |-> VTAPID,
        segs |-> <<"agent_id", "team_id">>]
    >>

\* GenTagColumns: the column names, in order
GenTagColumns(code) == <<"time", "_tid">> \o FlattenSegs(ColumnBlocks, code, 1)

(* ------------------------------------------------------------------ *)
(* Metrics tables                                                      *)
(* ------------------------------------------------------------------ *)
NETWORK_1M == 0
NETWORK_MAP_1M == 1
APPLICATION_1M == 2
APPLICATION_MAP_1M == 3
TRAFFIC_POLICY_1M == 4
NETWORK_1S == 5
NETWORK_MAP_1S == 6
APPLICATION_1S == 7
APPLICATION_MAP_1S == 8
METRICS_TABLE_ID_MAX == 9

\* MetricsTableID is a uint8
MetricsTableIDs == 0..255

\* A name list in which the second-granularity network table carries the
\* name of the minute table: the fault the round trip of C6 rules out
metricsTableNamesDup ==
    (NETWORK_1M :> "network.1m") @@ (NETWORK_MAP_1M :> "network_map.1m")
    @@ (APPLICATION_1M :> "application.1m") @@ (APPLICATION_MAP_1M :> "application_map.1m")
    @@ (TRAFFIC_POLICY_1M :> "traffic_policy.1m")
    @@ (NETWORK_1S :> "network.1m") @@ (NETWORK_MAP_1S :> "network_map.1s")
    @@ (APPLICATION_1S :> "application.1s") @@ (APPLICATION_MAP_1S :> "application_map.1s")

metricsTableNames ==
    (NETWORK_1M :> "network.1m") @@ (NETWORK_MAP_1M :> "network_map.1m")
    @@ (APPLICATION_1M :> "application.1m") @@ (APPLICATION_MAP_1M :> "application_map.1m")
    @@ (TRAFFIC_POLICY_1M :> "traffic_policy.1m")
    @@ (NETWORK_1S :> "network.1s") @@ (NETWORK_MAP_1S :> "network_map.1s")
    @@ (APPLICATION_1S :> "application.1s") @@ (APPLICATION_MAP_1S :> "application_map.1s")

BaseCode ==
    {AZID, HostID, IP, L3Device, L3EpcID, PodClusterID, PodGroupID, PodID, PodNodeID,
     PodNSID, RegionID, SubnetID, TAPType, VTAPID, ServiceID, Resource, GPID, SignalSource}

BasePathCode ==
    {AZIDPath, HostIDPath, IPPath, L3DevicePath, L3EpcIDPath, PodClusterIDPath,
     PodGroupIDPath, PodIDPath, PodNodeIDPath, PodNSIDPath, RegionIDPath, SubnetIDPath,
     TAPSide, TAPType, VTAPID, ServiceIDPath, ResourcePath, GPIDPath, SignalSource}

BasePortCode == {Protocol, ServerPort, IsKeyService}

NETWORK == BaseCode \cup BasePortCode \cup {Direction}
NETWORK_MAP == BasePathCode \cup BasePortCode \cup {TAPPort}
APPLICATION == BaseCode \cup BasePortCode \cup {Direction, L7Protocol}
APPLICATION_MAP == BasePathCode \cup BasePortCode \cup {TAPPort, L7Protocol}
TRAFFIC_POLICY == {ACLGID, TunnelIPID, VTAPID}

metricsTableCodes ==
    (NETWORK_1M :> NETWORK) @@ (NETWORK_MAP_1M :> NETWORK_MAP)
    @@ (APPLICATION_1M :> APPLICATION) @@ (APPLICATION_MAP_1M :> APPLICATION_MAP)
    @@ (TRAFFIC_POLICY_1M :> TRAFFIC_POLICY)
    @@ (NETWORK_1S :> NETWORK) @@ (NETWORK_MAP_1S :> NETWORK_MAP)
    @@ (APPLICATION_1S :> APPLICATION) @@ (APPLICATION_MAP_1S :> APPLICATION_MAP)

Min(S) == CHOOSE x \in S : \A y \in S : x <= y

\* MetricsTableID.TableName: metricsTableNames[i]; indexing past the end of the
\* slice is a run-time panic
TableName(i) ==
    IF i \in DOMAIN metricsTableNames
    THEN [panic |-> FALSE, name |-> metricsTableNames[i]]
    ELSE [panic |-> TRUE, name |-> ""]

\* MetricsTableID.TableCode: metricsTableCodes[i]; indexing past the end of the
\* slice is a run-time panic
TableCode(i) ==
    IF i \in DOMAIN metricsTableCodes
    THEN [panic |-> FALSE, code |-> metricsTableCodes[i]]
    ELSE [panic |-> TRUE, code |-> {}]

\* MetricsTableNameToID: the first index whose name matches, else the sentinel
MetricsTableNameToID(name) ==
    LET hits == {i \in DOMAIN metricsTableNames : metricsTableNames[i] = name}
    IN  IF hits # {} THEN Min(hits) ELSE METRICS_TABLE_ID_MAX

\* A TableID that compares t.Code without clearing MAC and MACPath: the fault
\* the exact-match rule of C3 rules out
TableIDUnmasked(t, isSecond) ==
    LET hits == {i \in DOMAIN metricsTableCodes : t.Code = metricsTableCodes[i]}
    IN  IF hits # {}
        THEN [id |-> IF isSecond THEN (Min(hits) + NETWORK_1S) % 256 ELSE Min(hits),
              err |-> FALSE]
        ELSE [id |-> 0, err |-> TRUE]

\* Tag.TableID: the first index whose code equals t.Code &^ MAC &^ MACPath,
\* plus NETWORK_1S (in uint8) for a second table; else an error
TableID(t, isSecond) ==
    LET hits == {i \in DOMAIN metricsTableCodes :
                    (t.Code \ {MAC}) \ {MACPath} = metricsTableCodes[i]}
    IN  IF hits # {}
        THEN [id |-> IF isSecond THEN (Min(hits) + NETWORK_1S) % 256 ELSE Min(hits),
              err |-> FALSE]
        ELSE [id |-> 0, err |-> TRUE]

(* ------------------------------------------------------------------ *)
(* Table definitions                                                   *)
(* ------------------------------------------------------------------ *)
\* The constructor of the meter columns newMetricsMinuteTable calls for a
\* table (the switch on id); the columns themselves come from other packages
meterColumns(id) ==
    IF id \in {NETWORK_1M, NETWORK_MAP_1M} THEN "FlowMeterColumns"
    ELSE IF id = TRAFFIC_POLICY_1M THEN "UsageMeterColumns"
    ELSE IF id \in {APPLICATION_1M, APPLICATION_MAP_1M} THEN "AppMeterColumns"
    ELSE "nil"

\* newMetricsMinuteTable with the EPC/IP branches leaving aggr1H1DTable false
\* and the ACL branch leaving it true
newMetricsMinuteTableAggrSwapped(id, engine, ttl) ==
    LET code == metricsTableCodes[id]
        prefix == IF L3EpcID \in code THEN <<"time", "l3_epc_id", "ip4", "ip6">>
                  ELSE IF L3EpcIDPath \in code
                       THEN <<"time", "l3_epc_id_1", "ip4_1", "ip6_1",
                              "l3_epc_id_0", "ip4_0", "ip6_0">>
                  ELSE IF ACLGID \in code THEN <<"time", "acl_gid">>
                  ELSE <<>>
        orderKeys == prefix \o (IF ServerPort \in code THEN <<"server_port">> ELSE <<>>)
        name == TableName(id)
    IN  [panic |-> name.panic,
         table |-> [ID |-> id % 256,
                    LocalName |-> <<name.name, "LOCAL_SUBFFIX">>,
                    GlobalName |-> name.name,
                    Columns |-> [tag |-> GenTagColumns(code), meter |-> meterColumns(id)],
                    TimeKey |-> "time",
                    TTL |-> ttl,
                    PartitionFunc |-> "TimeFuncTwelveHour",
                    Engine |-> engine,
                    ColdStorage |-> name.name,
                    OrderKeys |-> orderKeys,
                    PrimaryKeyCount |-> Len(orderKeys),
                    Aggr1H1D |-> (L3EpcID \notin code /\ L3EpcIDPath \notin code
                                  /\ ACLGID \in code)]]

\* newMetricsMinuteTable with PrimaryKeyCount taken before "server_port" is
\* appended
newMetricsMinuteTableKeysEarly(id, engine, ttl) ==
    LET code == metricsTableCodes[id]
        prefix == IF L3EpcID \in code THEN <<"time", "l3_epc_id", "ip4", "ip6">>
                  ELSE IF L3EpcIDPath \in code
                       THEN <<"time", "l3_epc_id_1", "ip4_1", "ip6_1",
                              "l3_epc_id_0", "ip4_0", "ip6_0">>
                  ELSE IF ACLGID \in code THEN <<"time", "acl_gid">>
                  ELSE <<>>
        orderKeys == prefix \o (IF ServerPort \in code THEN <<"server_port">> ELSE <<>>)
        name == TableName(id)
    IN  [panic |-> name.panic,
         table |-> [ID |-> id % 256,
                    LocalName |-> <<name.name, "LOCAL_SUBFFIX">>,
                    GlobalName |-> name.name,
                    Columns |-> [tag |-> GenTagColumns(code), meter |-> meterColumns(id)],
                    TimeKey |-> "time",
                    TTL |-> ttl,
                    PartitionFunc |-> "TimeFuncTwelveHour",
                    Engine |-> engine,
                    ColdStorage |-> name.name,
                    OrderKeys |-> orderKeys,
                    PrimaryKeyCount |-> Len(prefix),
                    Aggr1H1D |-> ~(L3EpcID \notin code /\ L3EpcIDPath \notin code
                                   /\ ACLGID \in code)]]

\* newMetricsMinuteTable(id, engine, ..., ttl, coldStorage) for an id with a
\* code in metricsTableCodes: the table, and whether id.TableName() panicked.
\* LocalName is the table name followed by ckdb.LOCAL_SUBFFIX, ColdStorage the
\* entry GetColdStorage finds under the table name; version, cluster, storage
\* policy and database type are copied through and left out.
newMetricsMinuteTable(id, engine, ttl) ==
    LET code == metricsTableCodes[id]
        prefix == IF L3EpcID \in code THEN <<"time", "l3_epc_id", "ip4", "ip6">>
                  ELSE IF L3EpcIDPath \in code
                       THEN <<"time", "l3_epc_id_1", "ip4_1", "ip6_1",
                              "l3_epc_id_0", "ip4_0", "ip6_0">>
                  ELSE IF ACLGID \in code THEN <<"time", "acl_gid">>
                  ELSE <<>>
        orderKeys == prefix \o (IF ServerPort \in code THEN <<"server_port">> ELSE <<>>)
        name == TableName(id)
    IN  [panic |-> name.panic,
         table |-> [ID |-> id % 256,
                    LocalName |-> <<name.name, "LOCAL_SUBFFIX">>,
                    GlobalName |-> name.name,
                    Columns |-> [tag |-> GenTagColumns(code), meter |-> meterColumns(id)],
                    TimeKey |-> "time",
                    TTL |-> ttl,
                    PartitionFunc |-> "TimeFuncTwelveHour",
                    Engine |-> engine,
                    ColdStorage |-> name.name,
                    OrderKeys |-> orderKeys,
                    PrimaryKeyCount |-> Len(orderKeys),
                    Aggr1H1D |-> ~(L3EpcID \notin code /\ L3EpcIDPath \notin code
                                   /\ ACLGID \in code)]]

\* newMetricsSecondTable keeping the minute table's partition function and
\* Aggr1H1D
newMetricsSecondTableKeepsMinute(minuteTable, ttl) ==
    LET id == (minuteTable.ID + NETWORK_1S) % 256
        name == TableName(id)
    IN  [panic |-> name.panic,
         table |-> [minuteTable EXCEPT !.ID = id,
                                       !.LocalName = <<name.name, "LOCAL_SUBFFIX">>,
                                       !.GlobalName = name.name,
                                       !.TTL = ttl,
                                       !.ColdStorage = name.name,
                                       !.Engine = "MergeTree"]]

\* newMetricsSecondTable(minuteTable, ttl, coldStorages): a copy of the minute
\* table with the second-resolution identifier, names, TTL, cold storage,
\* partition function and engine
newMetricsSecondTable(minuteTable, ttl) ==
    LET id == (minuteTable.ID + NETWORK_1S) % 256
        name == TableName(id)
    IN  [panic |-> name.panic,
         table |-> [minuteTable EXCEPT !.ID = id,
                                       !.LocalName = <<name.name, "LOCAL_SUBFFIX">>,
                                       !.GlobalName = name.name,
                                       !.TTL = ttl,
                                       !.ColdStorage = name.name,
                                       !.PartitionFunc = "TimeFuncFourHour",
                                       !.Engine = "MergeTree",
                                       !.Aggr1H1D = FALSE]]

\* GetMetricsTables: the five minute tables, then the four second tables made
\* from minuteTables[i-NETWORK_1S]; a panic in one of the calls ends it
GetMetricsTables(p) ==
    LET minute == <<newMetricsMinuteTable(NETWORK_1M, p.engine, p.flowMinuteTtl),
                    newMetricsMinuteTable(NETWORK_MAP_1M, p.engine, p.flowMinuteTtl),
                    newMetricsMinuteTable(APPLICATION_1M, p.engine, p.appMinuteTtl),
                    newMetricsMinuteTable(APPLICATION_MAP_1M, p.engine, p.appMinuteTtl),
                    newMetricsMinuteTable(TRAFFIC_POLICY_1M, p.engine, 3 * 24)>>
        second == [i \in 1..4 |->
                      newMetricsSecondTable(minute[i].table,
                          IF i <= 2 THEN p.flowSecondTtl ELSE p.appSecondTtl)]
        all == minute \o second
    IN  [panic |-> \E i \in DOMAIN all : all[i].panic,
         tables |-> [i \in DOMAIN all |-> all[i].table]]

(* ------------------------------------------------------------------ *)
(* Wire decoder                                                        *)
(* ------------------------------------------------------------------ *)
ID_OTHER == -1
ID_INTERNET == -2
MaxUint16 == 65535

\* MarshalInt32WithSpecialID: v, or for v <= 0 other than the two special
\* ids the low 16 bits of its two's complement form
MarshalInt32WithSpecialID(v) ==
    IF v > 0 \/ v = ID_OTHER \/ v = ID_INTERNET THEN v ELSE v % (MaxUint16 + 1)

\* pb.MiniTag with every field absent.  A byte string is its bytes (Ip, Ip1)
\* and the bytes that follow them in its backing array (IpSpare, Ip1Spare):
\* the capacity of the slice is the length of both.
ZeroMiniTag ==
    [Code |-> {}, GlobalThreadId |-> 0, IsIpv6 |-> 0,
     Ip |-> <<>>, IpSpare |-> <<>>, Ip1 |-> <<>>, Ip1Spare |-> <<>>,
     Mac |-> 0, Mac1 |-> 0, L3EpcId |-> 0, L3EpcId1 |-> 0, Direction |-> 0,
     TapSide |-> 0, Protocol |-> 0, AclGid |-> 0, ServerPort |-> 0, VtapId |-> 0,
     TapPort |-> ZeroTapPort, TapType |-> 0, L7Protocol |-> 0, AppService |-> "",
     AppInstance |-> "", Endpoint |-> "", BizType |-> 0, Gpid |-> 0, Gpid1 |-> 0,
     PodId |-> 0, SignalSource |-> 0]

\* b[:n] of a byte slice: a panic when n exceeds the capacity, else the first n
\* bytes of the backing array
SliceTo(b, spare, n) ==
    IF n > Len(b) + Len(spare)
    THEN [panic |-> TRUE, bytes |-> <<>>]
    ELSE [panic |-> FALSE, bytes |-> SubSeq(b \o spare, 1, n)]

\* copy(dst, src): the first min(len(dst), len(src)) bytes of dst overwritten
Copy(dst, src) == [i \in 1..Len(dst) |-> IF i <= Len(src) THEN src[i] ELSE dst[i]]

\* make([]byte, 16)
Make16 == [i \in 1..IPv6len |-> 0]

\* Lines 1177-1196 of ReadFromPB: Code, GlobalThreadID, IsIPv4 and the addresses
ReadAddresses(t, p) ==
    LET t1 == [t EXCEPT !.Code = p.Code,
                        !.GlobalThreadID = p.GlobalThreadId % 256,
                        !.IsIPv4 = (1 - (p.IsIpv6 % 256)) % 256]
    IN  IF t1.IsIPv4 = 0
        THEN LET a == IF Len(t1.IP6) = 0 THEN Make16 ELSE t1.IP6
                 s == SliceTo(p.Ip, p.IpSpare, IPv6len)
                 a1 == IF Len(t1.IP61) = 0 THEN Make16 ELSE t1.IP61
                 s1 == SliceTo(p.Ip1, p.Ip1Spare, IPv6len)
             IN  IF s.panic THEN [panic |-> TRUE, tag |-> [t1 EXCEPT !.IP6 = a]]
                 ELSE IF IPPath \notin t1.Code
                      THEN [panic |-> FALSE, tag |-> [t1 EXCEPT !.IP6 = Copy(a, s.bytes)]]
                 ELSE IF s1.panic
                      THEN [panic |-> TRUE,
                            tag |-> [t1 EXCEPT !.IP6 = Copy(a, s.bytes), !.IP61 = a1]]
                 ELSE [panic |-> FALSE,
                       tag |-> [t1 EXCEPT !.IP6 = Copy(a, s.bytes),
                                          !.IP61 = Copy(a1, s1.bytes)]]
        ELSE LET s == SliceTo(p.Ip, p.IpSpare, IPv4len)
                 s1 == SliceTo(p.Ip1, p.Ip1Spare, IPv4len)
             IN  IF s.panic THEN [panic |-> TRUE, tag |-> t1]
                 ELSE IF IPPath \notin t1.Code
                      THEN [panic |-> FALSE, tag |-> [t1 EXCEPT !.IP = BigEndianUint32(s.bytes)]]
                 ELSE IF s1.panic
                      THEN [panic |-> TRUE, tag |-> [t1 EXCEPT !.IP = BigEndianUint32(s.bytes)]]
                 ELSE [panic |-> FALSE,
                       tag |-> [t1 EXCEPT !.IP = BigEndianUint32(s.bytes),
                                          !.IP1 = BigEndianUint32(s1.bytes)]]

\* The backward-compatibility rule without the test for TRAFFIC_POLICY
CompatCodeNoPolicyTest(code) ==
    IF IPPath \in code THEN code \cup {GPIDPath, SignalSource}
    ELSE code \cup {GPID, SignalSource}

\* The backward-compatibility rule of ReadFromPB (lines 1218-1225)
CompatCode(code) ==
    IF IPPath \in code THEN code \cup {GPIDPath, SignalSource}
    ELSE IF code # TRAFFIC_POLICY THEN code \cup {GPID, SignalSource}
    ELSE code

\* Lines 1206-1239 of ReadFromPB
ReadRest(t, p) ==
    LET split == SplitToPortTypeTunnel(p.TapPort)
        code == CompatCode(t.Code)
        toSide1 == IPPath \in code /\ t.Role = ROLE_SERVER
    IN  [t EXCEPT !.Protocol = p.Protocol % 256,
                  !.ACLGID = p.AclGid % 65536,
                  !.ServerPort = p.ServerPort % 65536,
                  !.VTAPID = p.VtapId % 65536,
                  !.TAPPort = p.TapPort,
                  !.TapPort = split.TapPort,
                  !.TapPortType = split.TapPortType,
                  !.NatSource = split.NatSource,
                  !.TunnelType = split.TunnelType,
                  !.TAPType = p.TapType % 256,
                  !.L7Protocol = p.L7Protocol % 256,
                  !.AppService = p.AppService,
                  !.AppInstance = p.AppInstance,
                  !.Endpoint = p.Endpoint,
                  !.BizType = p.BizType % 256,
                  !.Code = code,
                  !.GPID = p.Gpid,
                  !.GPID1 = p.Gpid1,
                  !.PodID1 = IF p.PodId # 0 /\ toSide1 THEN p.PodId ELSE @,
                  !.PodID = IF p.PodId # 0 /\ ~toSide1 THEN p.PodId ELSE @,
                  !.SignalSource = p.SignalSource % 65536,
                  !.TunnelIPID = p.ServerPort % 65536]

\* ReadFromPB assigning the pod identifier to the other side
ReadFromPBPodOtherSide(t, p) ==
    LET r1 == ReadAddresses(t, p)
        t2 == [r1.tag EXCEPT !.MAC = p.Mac,
                             !.MAC1 = p.Mac1,
                             !.L3EpcID = MarshalInt32WithSpecialID(p.L3EpcId),
                             !.L3EpcID1 = MarshalInt32WithSpecialID(p.L3EpcId1),
                             !.Role = ToRole(p.Direction % 256),
                             !.TAPSide = p.TapSide % 256]
        str == TAPSideString(p.TapSide % 256)
        d == ReadRest([t2 EXCEPT !.TAPSideStr = str.str], p)
    IN  IF r1.panic THEN r1
        ELSE IF str.panic THEN [panic |-> TRUE, tag |-> t2]
        ELSE [panic |-> FALSE, tag |-> [d EXCEPT !.PodID = d.PodID1, !.PodID1 = d.PodID]]

\* Tag.ReadFromPB: the Tag after the call, and whether the call panicked (the
\* Tag then keeps what was assigned before the panic)
ReadFromPB(t, p) ==
    LET r1 == ReadAddresses(t, p)
        t2 == [r1.tag EXCEPT !.MAC = p.Mac,
                             !.MAC1 = p.Mac1,
                             !.L3EpcID = MarshalInt32WithSpecialID(p.L3EpcId),
                             !.L3EpcID1 = MarshalInt32WithSpecialID(p.L3EpcId1),
                             !.Role = ToRole(p.Direction % 256),
                             !.TAPSide = p.TapSide % 256]
        str == TAPSideString(p.TapSide % 256)
    IN  IF r1.panic THEN r1
        ELSE IF str.panic THEN [panic |-> TRUE, tag |-> t2]
        ELSE [panic |-> FALSE, tag |-> ReadRest([t2 EXCEPT !.TAPSideStr = str.str], p)]

(* ------------------------------------------------------------------ *)
(* Inputs of the record pipeline                                       *)
(* ------------------------------------------------------------------ *)
TableCodes == {NETWORK, NETWORK_MAP, APPLICATION, APPLICATION_MAP, TRAFFIC_POLICY}

\* Codes an agent sends for a table: the table code, with the GPID/GPIDPath and
\* SignalSource bits (new agents) or without them (old agents), with or
\* without the MAC / MACPath bits.
RoutableWireCodes ==
    {(c \ drop) \cup mac : c \in TableCodes,
                          drop \in {{}, {GPID, GPIDPath, SignalSource}},
                          mac \in {{}, {MAC}, {MACPath}}}

\* Codes of no table: the empty code, small unions, a strict subset and a
\* strict superset of a table code.
OtherCodes ==
    {{}, {IP, ServerPort}, {ACLGID}, {IP, IPPath}, {Direction, GPID},
     {L3EpcID}, {L3EpcIDPath}, {TAPSide}, {MAC}, {ACLGID, VTAPID},
     NETWORK \ {AZID}, NETWORK \cup {ACLGID}, NETWORK_MAP \cup {Direction}}

InputCodes == RoutableWireCodes \cup OtherCodes

Addr4A == <<192, 0, 2, 1>>
Addr4B == <<10, 1, 2, 3>>
Addr6A == <<32, 1, 13, 184, 0, 0, 0, 0, 0, 0, 0, 0, 0, 0, 0, 1>>
Addr6B == <<254, 128, 0, 0, 0, 0, 0, 0, 0, 0, 0, 0, 0, 0, 0, 2>>

\* Field values set by the stages before the encoder
FieldInputs ==
    {ZeroField,
     [ZeroField EXCEPT !.IsIPv4 = 1, !.IP = BigEndianUint32(Addr4A),
                       !.IP1 = BigEndianUint32(Addr4B), !.ServerPort = 8080,
                       !.L3EpcID = 100, !.L3EpcID1 = ID_INTERNET, !.PodID = 7,
                       !.TAPSide = ClientNode, !.Role = ROLE_CLIENT],
     [ZeroField EXCEPT !.IsIPv4 = 0, !.IP6 = Addr6A, !.IP61 = Addr6B,
                       !.GlobalThreadID = 3, !.L3EpcID = ID_OTHER, !.PodID1 = 9,
                       !.TAPSide = ServerProcess, !.Role = ROLE_SERVER,
                       !.IsKeyService = 1, !.AppService = "svc", !.L7Protocol = 20]}

\* Inbound records a peer can send that differ from what an agent builds: a
\* side byte past the end of TAPSideEnumsString, a side byte inside it with no
\* entry, no Ip bytes at all, and an IPv6 record whose Ip1 holds four bytes.
MalformedFieldInputs ==
    {[ZeroMiniTag EXCEPT !.Ip = Addr4A, !.Ip1 = Addr4B, !.TapSide = 200],
     [ZeroMiniTag EXCEPT !.Ip = Addr4A, !.Ip1 = Addr4B, !.TapSide = 5],
     [ZeroMiniTag EXCEPT !.TapSide = Client],
     [ZeroMiniTag EXCEPT !.IsIpv6 = 1, !.Ip = Addr6A, !.Ip1 = Addr4B, !.TapSide = Server]}

\* Inbound records: the field values of old and new agents
WireFieldInputs ==
    {[ZeroMiniTag EXCEPT !.Ip = Addr4A, !.Ip1 = Addr4B, !.Direction = ClientToServer,
                         !.TapSide = Client, !.ServerPort = 8080, !.PodId = 7,
                         !.L3EpcId = 100, !.L3EpcId1 = ID_INTERNET],
     [ZeroMiniTag EXCEPT !.IsIpv6 = 1, !.Ip = Addr6A, !.Ip1 = Addr6B,
                         !.Direction = ServerToClient + NodeSide, !.TapSide = ServerNode,
                         !.PodId = 9, !.L3EpcId = -3, !.GlobalThreadId = 3],
     [ZeroMiniTag EXCEPT !.Ip = Addr4B, !.Ip1 = Addr4A, !.Direction = LocalToLocal,
                         !.TapSide = Local, !.PodId = 0, !.ServerPort = 65536 + 53,
                         !.L3EpcId = 70000, !.L3EpcId1 = -70000]}
    \cup MalformedFieldInputs

WireInputs == {[f EXCEPT !.Code = c] : f \in WireFieldInputs, c \in InputCodes}

\* Records decoded into a Tag that is reused without a release
ReuseInputs == {p \in WireInputs : p.Code \in TableCodes \cup {TRAFFIC_POLICY \cup {MAC}}}

(* ------------------------------------------------------------------ *)
(* Text forms of identifiers and identifier lists                      *)
(* ------------------------------------------------------------------ *)
\* int16(i) and uint16(i) of a 64-bit integer
ToInt16(i) == ((i + 32768) % 65536) - 32768

ToUint16(i) == i % 65536

DigitVal ==
    ("0" :> 0) @@ ("1" :> 1) @@ ("2" :> 2) @@ ("3" :> 3) @@ ("4" :> 4)
    @@ ("5" :> 5) @@ ("6" :> 6) @@ ("7" :> 7) @@ ("8" :> 8) @@ ("9" :> 9)

RECURSIVE ParseDigits(_, _, _)
ParseDigits(s, i, acc) ==
    IF i > Len(s) THEN [err |-> FALSE, val |-> acc]
    ELSE IF CharAt(s, i) \notin DOMAIN DigitVal THEN [err |-> TRUE, val |-> 0]
    ELSE ParseDigits(s, i + 1, acc * 10 + DigitVal[CharAt(s, i)])

\* strconv.ParseInt(s, 10, 64) of a text short enough to stay in range: an
\* optional sign and at least one decimal digit, anything else is an error
ParseInt(s) ==
    LET signed == Len(s) > 0 /\ CharAt(s, 1) \in {"+", "-"}
        body == IF signed THEN SubSeq(s, 2, Len(s)) ELSE s
        r == ParseDigits(body, 1, 0)
    IN  IF Len(body) = 0 \/ r.err THEN [err |-> TRUE, val |-> 0]
        ELSE [err |-> FALSE,
              val |-> IF signed /\ CharAt(s, 1) = "-" THEN 0 - r.val ELSE r.val]

\* An unmarshalUint16WithSpecialID that returns the parsed number without the
\* conversion to int16: the fault the round trip of C12 rules out
unmarshalUint16WithSpecialIDWide(s) ==
    LET r == ParseInt(s)
    IN  IF r.err THEN [val |-> -1, err |-> TRUE]
        ELSE [val |-> r.val, err |-> FALSE]

marshalUint16WithSpecialID(v) ==
    IF v = ID_OTHER \/ v = ID_INTERNET THEN FormatInt(v)
    ELSE FormatUint(v % (MaxUint16 + 1))

unmarshalUint16WithSpecialID(s) ==
    LET r == ParseInt(s)
    IN  IF r.err THEN [val |-> -1, err |-> TRUE]
        ELSE [val |-> ToInt16(r.val), err |-> FALSE]

RECURSIVE JoinFrom(_, _)
JoinFrom(vs, i) ==
    IF i > Len(vs) THEN ""
    ELSE FormatUint(vs[i]) \o (IF i < Len(vs) THEN "|" ELSE "") \o JoinFrom(vs, i + 1)

marshalUint16s(vs) == JoinFrom(vs, 1)

\* strings.Split(s, "|"): the tokens between the separators; one empty token
\* for the empty string
RECURSIVE SplitFrom(_, _, _)
SplitFrom(s, i, cur) ==
    IF i > Len(s) THEN <<cur>>
    ELSE IF CharAt(s, i) = "|" THEN <<cur>> \o SplitFrom(s, i + 1, "")
    ELSE SplitFrom(s, i + 1, cur \o CharAt(s, i))

Split(s) == SplitFrom(s, 1, "")

\* The loop of unmarshalUint16s: at the first token ParseInt rejects, the
\* list built so far is returned with the error
RECURSIVE ParseTokens(_, _, _)
ParseTokens(toks, i, acc) ==
    IF i > Len(toks) THEN [list |-> acc, err |-> FALSE]
    ELSE LET r == ParseInt(toks[i])
         IN  IF r.err THEN [list |-> acc, err |-> TRUE]
             ELSE ParseTokens(toks, i + 1, Append(acc, ToUint16(r.val)))

unmarshalUint16s(s) == ParseTokens(Split(s), 1, <<>>)

\* How far the identifiers tried reach from 0 and from both ends of int16
IdSpan == 8

Int16Inputs ==
    ((0 - IdSpan)..IdSpan) \cup {100, 255, 256, 1000}
    \cup {v - 32768 : v \in 0..IdSpan} \cup {32767 - v : v \in 0..IdSpan}

TextInputs ==
    {"", "x", "abc", "-", "+5", "-1", "-2", "7", "65533", "1.5", "1e3", "0x10", " 1"}

Uint16Lists ==
    {<<>>, <<0>>, <<100>>, <<65535>>, <<1, 2>>, <<0, 0>>, <<80, 443, 65535>>,
     <<8080, 53, 1, 0>>}

ListTextInputs ==
    {"", "|", "x", "1|x", "1|2|", "|1", "12|x|3", "1|2|3x", "7", "1|2", "65536|1",
     "-1|2", "a|b"}

(* ------------------------------------------------------------------ *)
(* Inputs of the table lookups                                         *)
(* ------------------------------------------------------------------ *)
\* The largest table identifier handed to TableName and TableCode
MaxIdInput == 10

IdInputs == 0..MaxIdInput

NameInputs ==
    {metricsTableNames[i] : i \in DOMAIN metricsTableNames}
    \cup {"", "network", "network.1h", "traffic_policy.1s", "NETWORK.1M"}

\* Arguments of GetMetricsTables: the engine and the four retention times
TableParams ==
    [engine : {"MergeTree", "ReplicatedMergeTree"},
     flowMinuteTtl : {24, 168, 720}, flowSecondTtl : {1, 24, 168},
     appMinuteTtl : {24, 168, 720}, appSecondTtl : {1, 24, 168}]

\* Codes HasEdgeTagField is asked about: the empty code, the table codes and
\* every code of a single flag
EdgeCodeInputs == {{}} \cup TableCodes \cup {{f} : f \in AllFlags}

\* Values of a DirectionEnum (uint8): every side type, named or not, with
\* every value of the three direction bits
DirectionInputs == {s * 8 + c : s \in 0..7 \cup {31}, c \in 0..7}

(* ------------------------------------------------------------------ *)
(* Pooled instances                                                    *)
(* ------------------------------------------------------------------ *)
\* Worker threads sharing the pools
NumWorkers == 2

Workers == 1..NumWorkers

\* Field (or Tag) instances the pool's constructor may allocate
MaxInst == 2

Inst == 1..MaxInst

\* Byte buffers (backing arrays of IP6 / IP61) alive at one time
MaxBuf == 4

Bufs == 1..MaxBuf

\* How often one instance may sit in a pool at the same time
MaxDup == 2

\* A nil slice, and a nil *Field / *Tag
NilRef == 0

Nil == 0

\* An instance in memory: the struct, with IP6 and IP61 holding the address
\* of their backing array instead of its bytes
ZeroObj(k) ==
    IF k = "field" THEN [ZeroField EXCEPT !.IP6 = NilRef, !.IP61 = NilRef]
    ELSE [ZeroTag EXCEPT !.IP6 = NilRef, !.IP61 = NilRef]

Deref(b, r) == IF r = NilRef THEN <<>> ELSE b[r]

\* The struct as its holder reads it: IP6 and IP61 with their bytes
View(o, b) == [o EXCEPT !.IP6 = Deref(b, o.IP6), !.IP61 = Deref(b, o.IP61)]

Refs(os) == ({os[i].IP6 : i \in Inst} \cup {os[i].IP61 : i \in Inst}) \ {NilRef}

FreeBufs(os) == Bufs \ Refs(os)

\* Backing arrays no instance refers to are reclaimed
Collect(os, b) == [r \in Bufs |-> IF r \in Refs(os) THEN b[r] ELSE <<>>]

\* Writing the value v into the instance o: a non-nil IP6 / IP61 is written
\* in place (copy into the existing backing array), a nil one gets a new array
StoreRef6(o, v, free) ==
    IF v.IP6 = <<>> THEN NilRef
    ELSE IF o.IP6 # NilRef THEN o.IP6 ELSE Min(free)

StoreRef61(o, v, free) ==
    IF v.IP61 = <<>> THEN NilRef
    ELSE IF o.IP61 # NilRef THEN o.IP61 ELSE Min(free \ {StoreRef6(o, v, free)})

StoreNeeds(o, v) ==
    (IF v.IP6 # <<>> /\ o.IP6 = NilRef THEN 1 ELSE 0)
    + (IF v.IP61 # <<>> /\ o.IP61 = NilRef THEN 1 ELSE 0)

StoreObj(o, v, free) ==
    [v EXCEPT !.IP6 = StoreRef6(o, v, free), !.IP61 = StoreRef61(o, v, free)]

StoreBufs(b, o2, v) ==
    [r \in Bufs |-> IF r = o2.IP6 THEN v.IP6 ELSE IF r = o2.IP61 THEN v.IP61 ELSE b[r]]

\* Values a worker writes into a Field it holds
PoolFieldInputs ==
    {[ZeroField EXCEPT !.IsIPv4 = 0, !.IP6 = Addr6A, !.PodID = 7, !.ServerPort = 8080],
     [ZeroField EXCEPT !.IsIPv4 = 0, !.IP6 = Addr6B, !.IP61 = Addr6A, !.PodID1 = 9,
                       !.Role = ROLE_SERVER]}

\* Records a worker decodes into a Tag it holds
PoolWireInputs ==
    {[ZeroMiniTag EXCEPT !.Code = NETWORK_MAP, !.IsIpv6 = 1, !.Ip = Addr6A, !.Ip1 = Addr6B,
                         !.Direction = ServerToClient, !.TapSide = Server, !.PodId = 7],
     [ZeroMiniTag EXCEPT !.Code = NETWORK_MAP, !.IsIpv6 = 1, !.Ip = Addr6B, !.Ip1 = Addr6A,
                         !.Direction = ServerToClient, !.TapSide = Server, !.PodId = 9]}

(* ------------------------------------------------------------------ *)
(* State                                                               *)
(* ------------------------------------------------------------------ *)
VARIABLES
    tag,      \* the Tag of the record being processed
    rec,      \* the inbound record last decoded into tag
    src,      \* how tag was filled: "zero", "new" (NewTag), "pb" (ReadFromPB),
              \* "panic" (ReadFromPB panicked)
    out,      \* the segments MarshalTo wrote for tag, once it has run
    cols,     \* the column names GenTagColumns gave for tag.Code, once it has run
    tid,      \* the result of TableID on tag, once it has run
    nameRes,  \* the last call of MetricsTableID.TableName and its result
    idRes,    \* the last call of MetricsTableNameToID and its result
    codeRes,  \* the last call of MetricsTableID.TableCode and its result
    metricsTables, \* the last call of GetMetricsTables and the tables it built
    kind,     \* the pool the workers use: "field" (fieldPool) or "tag" (tagPool)
    objs,     \* the instances in memory
    bufs,     \* the backing arrays of the instances' IP6 / IP61
    created,  \* how many instances the pool's constructor has allocated
    pool,     \* how often each instance sits in the pool
    held,     \* the instances each worker holds a pointer to and uses
    origin,   \* the instance each instance was cloned from, if it is a clone
    got,      \* the instance the last step took out of the pool, if it was
              \* an Acquire that found one there
    sid,      \* the last call of marshalUint16WithSpecialID and its result
    usid,     \* the last call of unmarshalUint16WithSpecialID and its result
    ms,       \* the last call of marshalUint16s and its result
    ums,      \* the last call of unmarshalUint16s and its result
    edge,     \* the last call of Code.HasEdgeTagField and its result
    gw        \* the last call of DirectionEnum.IsGateway and its result

pipeVars == <<tag, rec, src, out, cols, tid>>
tableVars == <<nameRes, idRes, codeRes, metricsTables>>
poolVars == <<kind, objs, bufs, created, pool, held, origin, got>>
codecVars == <<sid, usid, ms, ums, edge, gw>>
vars == <<pipeVars, tableVars, poolVars, codecVars>>

NoOut == [valid |-> FALSE, segs |-> <<>>]
NoCols == [valid |-> FALSE, names |-> <<>>]
NoTid == [valid |-> FALSE, isSecond |-> FALSE, id |-> 0, err |-> FALSE]
NoNameRes == [valid |-> FALSE, id |-> 0, panic |-> FALSE, name |-> ""]
NoIdRes == [valid |-> FALSE, name |-> "", id |-> 0]
NoTables ==
    [valid |-> FALSE, panic |-> FALSE, tables |-> <<>>,
     params |-> [engine |-> "", flowMinuteTtl |-> 0, flowSecondTtl |-> 0,
                 appMinuteTtl |-> 0, appSecondTtl |-> 0]]
NoCodeRes == [valid |-> FALSE, id |-> 0, panic |-> FALSE, code |-> {}]
NoEdge == [valid |-> FALSE, code |-> {}, res |-> FALSE]
NoGw == [valid |-> FALSE, d |-> 0, res |-> FALSE]
NoSid == [valid |-> FALSE, v |-> 0, text |-> ""]
NoUsid == [valid |-> FALSE, s |-> "", val |-> 0, err |-> FALSE]
NoMs == [valid |-> FALSE, vs |-> <<>>, text |-> ""]
NoUms == [valid |-> FALSE, s |-> "", list |-> <<>>, err |-> FALSE]

InitOf(k) ==
    /\ tag = ZeroTag
    /\ rec = ZeroMiniTag
    /\ src = "zero"
    /\ out = NoOut
    /\ cols = NoCols
    /\ tid = NoTid
    /\ nameRes = NoNameRes
    /\ idRes = NoIdRes
    /\ codeRes = NoCodeRes
    /\ metricsTables = NoTables
    /\ kind = k
    /\ objs = [i \in Inst |-> ZeroObj(k)]
    /\ bufs = [r \in Bufs |-> <<>>]
    /\ created = 0
    /\ pool = [i \in Inst |-> 0]
    /\ held = [w \in Workers |-> {}]
    /\ origin = [i \in Inst |-> Nil]
    /\ got = Nil
    /\ sid = NoSid
    /\ usid = NoUsid
    /\ ms = NoMs
    /\ ums = NoUms
    /\ edge = NoEdge
    /\ gw = NoGw

Init == InitOf("field")

InitPool == \E k \in {"field", "tag"} : InitOf(k)

(* ------------------------------------------------------------------ *)
(* Actions of the record pipeline                                      *)
(* ------------------------------------------------------------------ *)
\* Field.NewTag(c): a Tag holding a copy of the Field, the Code c and no id
NewTag(f, c) == f @@ [Code |-> c, id |-> ""]

\* A worker fills a zero-valued Tag through NewTag
StepNewTag(f, c) ==
    /\ src = "zero"
    /\ tag' = NewTag(f, c)
    /\ src' = "new"
    /\ rec' = ZeroMiniTag
    /\ out' = NoOut /\ cols' = NoCols /\ tid' = NoTid
    /\ UNCHANGED <<tableVars, poolVars, codecVars>>

\* t.ReadFromPB(p) on a zero-valued Tag, or on the Tag of the previous record
\* once that record has been encoded (the Tag is reused without a release)
StepReadFromPB(p) ==
    /\ \/ src = "zero"
       \/ src \in {"new", "pb"} /\ out.valid /\ ~cols.valid /\ ~tid.valid
          /\ p \in ReuseInputs
    /\ LET r == ReadFromPB(tag, p)
       IN  /\ tag' = r.tag
           /\ src' = IF r.panic THEN "panic" ELSE "pb"
    /\ rec' = p
    /\ out' = NoOut /\ cols' = NoCols /\ tid' = NoTid
    /\ UNCHANGED <<tableVars, poolVars, codecVars>>

StepMarshalTo ==
    /\ src \in {"new", "pb"}
    /\ ~out.valid
    /\ out' = [valid |-> TRUE, segs |-> MarshalTo(tag)]
    /\ UNCHANGED <<tag, rec, src, cols, tid, tableVars, poolVars, codecVars>>

StepGenTagColumns ==
    /\ src \in {"new", "pb"}
    /\ ~cols.valid
    /\ cols' = [valid |-> TRUE, names |-> GenTagColumns(tag.Code)]
    /\ UNCHANGED <<tag, rec, src, out, tid, tableVars, poolVars, codecVars>>

StepTableID(isSecond) ==
    /\ src \in {"new", "pb"}
    /\ ~tid.valid
    /\ LET r == TableID(tag, isSecond)
       IN  tid' = [valid |-> TRUE, isSecond |-> isSecond, id |-> r.id, err |-> r.err]
    /\ UNCHANGED <<tag, rec, src, out, cols, tableVars, poolVars, codecVars>>

Next ==
    \/ \E f \in FieldInputs, c \in InputCodes : StepNewTag(f, c)
    \/ \E p \in WireInputs : StepReadFromPB(p)
    \/ StepMarshalTo
    \/ StepGenTagColumns
    \/ \E b \in BOOLEAN : StepTableID(b)

Spec == Init /\ [][Next]_vars

(* ------------------------------------------------------------------ *)
(* Actions of the table lookups                                        *)
(* ------------------------------------------------------------------ *)
\* i.TableName() for an identifier i
StepTableName(i) ==
    /\ LET r == TableName(i)
       IN  nameRes' = [valid |-> TRUE, id |-> i, panic |-> r.panic, name |-> r.name]
    /\ UNCHANGED <<idRes, codeRes, metricsTables, pipeVars, poolVars, codecVars>>

\* MetricsTableNameToID(n) for a name n
StepNameToID(n) ==
    /\ idRes' = [valid |-> TRUE, name |-> n, id |-> MetricsTableNameToID(n)]
    /\ UNCHANGED <<nameRes, codeRes, metricsTables, pipeVars, poolVars, codecVars>>

\* i.TableCode() for an identifier i
StepTableCode(i) ==
    /\ LET r == TableCode(i)
       IN  codeRes' = [valid |-> TRUE, id |-> i, panic |-> r.panic, code |-> r.code]
    /\ UNCHANGED <<nameRes, idRes, metricsTables, pipeVars, poolVars, codecVars>>

\* The names and identifiers a caller passes on: those of the input sets and
\* the result of the previous lookup
NamesAtHand == NameInputs \cup (IF nameRes.valid /\ ~nameRes.panic THEN {nameRes.name} ELSE {})

IdsAtHand == IdInputs \cup (IF idRes.valid THEN {idRes.id} ELSE {})

NextTables ==
    \/ \E i \in IdsAtHand : StepTableName(i)
    \/ \E n \in NamesAtHand : StepNameToID(n)
    \/ \E i \in IdsAtHand : StepTableCode(i)

SpecTables == Init /\ [][NextTables]_vars

\* GetMetricsTables(engine, ..., flowMinuteTtl, flowSecondTtl, appMinuteTtl,
\* appSecondTtl, coldStorages)
StepGetMetricsTables(p) ==
    /\ LET r == GetMetricsTables(p)
       IN  metricsTables' = [valid |-> TRUE, panic |-> r.panic, tables |-> r.tables,
                             params |-> p]
    /\ UNCHANGED <<nameRes, idRes, codeRes, pipeVars, poolVars, codecVars>>

NextSchema == \E p \in TableParams : StepGetMetricsTables(p)

SpecSchema == Init /\ [][NextSchema]_vars

(* ------------------------------------------------------------------ *)
(* Actions of the text forms                                           *)
(* ------------------------------------------------------------------ *)
StepMarshalSpecialID(v) ==
    /\ sid' = [valid |-> TRUE, v |-> v, text |-> marshalUint16WithSpecialID(v)]
    /\ UNCHANGED <<usid, ms, ums, edge, gw, pipeVars, tableVars, poolVars>>

StepUnmarshalSpecialID(s) ==
    /\ LET r == unmarshalUint16WithSpecialID(s)
       IN  usid' = [valid |-> TRUE, s |-> s, val |-> r.val, err |-> r.err]
    /\ UNCHANGED <<sid, ms, ums, edge, gw, pipeVars, tableVars, poolVars>>

\* The texts a caller parses: those of the input set and the text the last
\* marshal call gave
TextsAtHand == TextInputs \cup (IF sid.valid THEN {sid.text} ELSE {})

NextSpecialID ==
    \/ \E v \in Int16Inputs : StepMarshalSpecialID(v)
    \/ \E s \in TextsAtHand : StepUnmarshalSpecialID(s)

SpecSpecialID == Init /\ [][NextSpecialID]_vars

StepMarshalUint16s(vs) ==
    /\ ms' = [valid |-> TRUE, vs |-> vs, text |-> marshalUint16s(vs)]
    /\ UNCHANGED <<sid, usid, ums, edge, gw, pipeVars, tableVars, poolVars>>

StepUnmarshalUint16s(s) ==
    /\ LET r == unmarshalUint16s(s)
       IN  ums' = [valid |-> TRUE, s |-> s, list |-> r.list, err |-> r.err]
    /\ UNCHANGED <<sid, usid, ms, edge, gw, pipeVars, tableVars, poolVars>>

ListTextsAtHand == ListTextInputs \cup (IF ms.valid THEN {ms.text} ELSE {})

NextUint16s ==
    \/ \E vs \in Uint16Lists : StepMarshalUint16s(vs)
    \/ \E s \in ListTextsAtHand : StepUnmarshalUint16s(s)
    \/ \E s \in TextInputs : StepUnmarshalSpecialID(s)

SpecUint16s == Init /\ [][NextUint16s]_vars

(* ------------------------------------------------------------------ *)
(* Actions of the Code and direction predicates                        *)
(* ------------------------------------------------------------------ *)
\* c.HasEdgeTagField() for a Code c
StepHasEdgeTagField(c) ==
    /\ edge' = [valid |-> TRUE, code |-> c, res |-> HasEdgeTagField(c)]
    /\ UNCHANGED <<sid, usid, ms, ums, gw, pipeVars, tableVars, poolVars>>

\* d.IsGateway() for a DirectionEnum d
StepIsGateway(d) ==
    /\ gw' = [valid |-> TRUE, d |-> d, res |-> IsGateway(d)]
    /\ UNCHANGED <<sid, usid, ms, ums, edge, pipeVars, tableVars, poolVars>>

NextEnums ==
    \/ \E c \in EdgeCodeInputs : StepHasEdgeTagField(c)
    \/ \E d \in DirectionInputs : StepIsGateway(d)

SpecEnums == Init /\ [][NextEnums]_vars

(* ------------------------------------------------------------------ *)
(* Actions of the pools                                                *)
(* ------------------------------------------------------------------ *)
\* The instance i as its holder reads it
ViewOf(i) == View(objs[i], bufs)

\* LockFreePool.Get for worker w: an instance taken out of the pool, or one
\* newly made by the pool's constructor
PoolGet(w, i) ==
    /\ pool[i] > 0 \/ i = created + 1
    /\ pool' = [pool EXCEPT ![i] = IF @ > 0 THEN @ - 1 ELSE @]
    /\ created' = IF i > created THEN i ELSE created
    /\ held' = [held EXCEPT ![w] = @ \cup {i}]

\* LockFreePool.Put: the instance a, zeroed to z, goes into the pool
PoolPut(w, a, z) ==
    /\ pool[a] < MaxDup
    /\ objs' = [objs EXCEPT ![a] = z]
    /\ bufs' = Collect(objs', bufs)
    /\ pool' = [pool EXCEPT ![a] = @ + 1]
    /\ held' = [held EXCEPT ![w] = @ \ {a}]
    /\ origin' = [i \in Inst |-> IF i = a \/ origin[i] = a THEN Nil ELSE origin[i]]
    /\ got' = Nil
    /\ UNCHANGED <<kind, created>>

\* An AcquireField whose instance stays in the pool: the fault the exclusive
\* ownership of C9 rules out
AcquireFieldPeek(w) ==
    /\ kind = "field"
    /\ \E i \in Inst :
          /\ pool[i] > 0 \/ i = created + 1
          /\ pool' = pool
          /\ created' = (IF i > created THEN i ELSE created)
          /\ held' = [held EXCEPT ![w] = @ \cup {i}]
          /\ got' = (IF pool[i] > 0 THEN i ELSE Nil)
    /\ UNCHANGED <<kind, objs, bufs, origin, pipeVars, tableVars, codecVars>>

AcquireField(w) ==
    /\ kind = "field"
    /\ \E i \in Inst : PoolGet(w, i) /\ got' = (IF pool[i] > 0 THEN i ELSE Nil)
    /\ UNCHANGED <<kind, objs, bufs, origin, pipeVars, tableVars, codecVars>>

AcquireTag(w) ==
    /\ kind = "tag"
    /\ \E i \in Inst : PoolGet(w, i) /\ got' = (IF pool[i] > 0 THEN i ELSE Nil)
    /\ UNCHANGED <<kind, objs, bufs, origin, pipeVars, tableVars, codecVars>>

\* A ReleaseField that puts the instance back as it is, without
\* "*field = Field{}": the fault the pool hygiene of C7 rules out
ReleaseFieldDirty(w, a) ==
    /\ kind = "field"
    /\ IF a = Nil THEN got' = Nil /\ UNCHANGED <<kind, objs, bufs, created, pool, held, origin>>
       ELSE PoolPut(w, a, objs[a])
    /\ UNCHANGED <<pipeVars, tableVars, codecVars>>

\* ReleaseField(a) called by worker w; a is nil or an instance
ReleaseField(w, a) ==
    /\ kind = "field"
    /\ IF a = Nil THEN got' = Nil /\ UNCHANGED <<kind, objs, bufs, created, pool, held, origin>>
       ELSE PoolPut(w, a, ZeroObj("field"))
    /\ UNCHANGED <<pipeVars, tableVars, codecVars>>

\* ReleaseTag(a) called by worker w; a is nil or an instance
ReleaseTag(w, a) ==
    /\ kind = "tag"
    /\ IF a = Nil THEN got' = Nil /\ UNCHANGED <<kind, objs, bufs, created, pool, held, origin>>
       ELSE PoolPut(w, a, ZeroObj("tag"))
    /\ UNCHANGED <<pipeVars, tableVars, codecVars>>

\* Worker w writes the value v into the instance i
Write(i, v) ==
    /\ StoreNeeds(objs[i], v) <= Cardinality(FreeBufs(objs))
    /\ LET o2 == StoreObj(objs[i], v, FreeBufs(objs))
       IN  /\ objs' = [objs EXCEPT ![i] = o2]
           /\ bufs' = Collect(objs', StoreBufs(bufs, o2, v))
    /\ got' = Nil
    /\ UNCHANGED <<kind, created, pool, held, origin, pipeVars, tableVars, codecVars>>

\* Worker w fills the Field i it holds
FillField(w, i, v) ==
    /\ kind = "field"
    /\ i \in held[w]
    /\ Write(i, v)

\* SetID on a Tag
SetID(t, id) == [t EXCEPT !.id = id]

\* Worker w fills the Tag i it holds: ReadFromPB(p), then SetID
FillTag(w, i, p, id) ==
    /\ kind = "tag"
    /\ i \in held[w]
    /\ ~ReadFromPB(ViewOf(i), p).panic
    /\ Write(i, SetID(ReadFromPB(ViewOf(i), p).tag, id))

\* The clone c of the instance f, made of the struct o
MakeClone(w, f, c, o) ==
    /\ PoolGet(w, c)
    /\ objs' = [objs EXCEPT ![c] = o]
    /\ origin' = [origin EXCEPT ![c] = f]
    /\ got' = Nil
    /\ UNCHANGED <<kind, pipeVars, tableVars, codecVars>>

\* A CloneField that copies the struct and not the backing arrays: the fault
\* the independence of C10 rules out
CloneFieldShallow(w, f) ==
    /\ kind = "field"
    /\ f \in held[w]
    /\ \E c \in Inst :
          /\ MakeClone(w, f, c, objs[f])
          /\ bufs' = Collect(objs', bufs)

\* CloneField(f) called by worker w: the struct is copied, and a non-nil IP6 /
\* IP61 gets a backing array of its own with the same bytes
CloneField(w, f) ==
    /\ kind = "field"
    /\ f \in held[w]
    /\ \E c \in Inst :
          LET free == FreeBufs([objs EXCEPT ![c] = ZeroObj("field")])
              v == ViewOf(f)
              o == StoreObj(ZeroObj("field"), v, free)
          IN  /\ StoreNeeds(ZeroObj("field"), v) <= Cardinality(free)
              /\ MakeClone(w, f, c, o)
              /\ bufs' = Collect(objs', StoreBufs(bufs, o, v))

\* CloneTag(t) called by worker w: Field, Code and id are assigned, so IP6 and
\* IP61 of the clone refer to the backing arrays of t
CloneTag(w, t) ==
    /\ kind = "tag"
    /\ t \in held[w]
    /\ \E c \in Inst :
          /\ MakeClone(w, t, c, objs[t])
          /\ bufs' = Collect(objs', bufs)

\* Workers that release only what they hold, once
NextPool ==
    \/ \E w \in Workers : AcquireField(w)
    \/ \E w \in Workers : AcquireTag(w)
    \/ \E w \in Workers : \E i \in held[w] : ReleaseField(w, i)
    \/ \E w \in Workers : \E i \in held[w] : ReleaseTag(w, i)
    \/ \E w \in Workers, i \in Inst, v \in PoolFieldInputs : FillField(w, i, v)
    \/ \E w \in Workers, i \in Inst, p \in PoolWireInputs : FillTag(w, i, p, "k")
    \/ \E w \in Workers, f \in Inst : CloneField(w, f)
    \/ \E w \in Workers, t \in Inst : CloneTag(w, t)

SpecPool == InitPool /\ [][NextPool]_vars

\* What a worker may pass to a second Release: nil, or an instance that has
\* been released, sits in the pool and is held by no one
Stale(w) == {Nil} \cup {i \in Inst : pool[i] > 0 /\ \A x \in Workers : i \notin held[x]}

\* Workers that also release nil and instances they have released before
NextPoolMisuse ==
    \/ NextPool
    \/ \E w \in Workers : \E a \in Stale(w) : ReleaseField(w, a)
    \/ \E w \in Workers : \E a \in Stale(w) : ReleaseTag(w, a)

SpecPoolMisuse == InitPool /\ [][NextPoolMisuse]_vars

(* ------------------------------------------------------------------ *)
(* Properties of the record pipeline                                   *)
(* ------------------------------------------------------------------ *)
MinuteIDs == NETWORK_1M..TRAFFIC_POLICY_1M

MaskedCode(c) == c \ {MAC, MACPath}

\* C1: the keys MarshalTo writes for a Tag are in strictly ascending
\* lexicographic order, whichever flags the Code has set.
C1_KeysAscending ==
    out.valid =>
        \A i \in 1..(Len(out.segs) - 1) : LexLess(out.segs[i].key, out.segs[i + 1].key)

\* C2: for the Code of each of the five tables, the column names of
\* GenTagColumns are the keys MarshalTo writes, in the same order.
C2_ColumnsMatchKeys ==
    (out.valid /\ cols.valid /\ tag.Code \in TableCodes) =>
        cols.names = Keys(out.segs)

\* C3: TableID(false) returns the identifier i without error exactly when the
\* Code with MAC and MACPath cleared equals the code of minute table i, and
\* returns an error exactly when it equals the code of no table.
C3_TableIDExactMatch ==
    (tid.valid /\ ~tid.isSecond) =>
        /\ \A i \in MinuteIDs :
              (~tid.err /\ tid.id = i) <=> (MaskedCode(tag.Code) = metricsTableCodes[i])
        /\ ~tid.err => tid.id \in MinuteIDs
        /\ tid.err <=> (MaskedCode(tag.Code) \notin TableCodes)

\* C3 witness: a Code carrying the MAC bit was routed to the policy table
C3_Witness ==
    /\ tid.valid /\ ~tid.isSecond /\ ~tid.err
    /\ MAC \in tag.Code
    /\ tid.id = TRAFFIC_POLICY_1M

\* The table an inbound code is meant for: the table whose code the inbound
\* code equals once MAC/MACPath are cleared, with or without the GPID /
\* GPIDPath and SignalSource bits
TablesOfWireCode(c) ==
    {i \in MinuteIDs :
        MaskedCode(c) \in {metricsTableCodes[i],
                           metricsTableCodes[i] \ {GPID, GPIDPath, SignalSource}}}

\* C4: after ReadFromPB has decoded a record whose Code, with MAC and MACPath
\* cleared, is the code of a table (with or without the GPID/GPIDPath and
\* SignalSource bits), TableID(false) routes the Tag to that table.
C4_DecodedTagRoutable ==
    (src = "pb" /\ tid.valid /\ ~tid.isSecond /\ TablesOfWireCode(rec.Code) # {}) =>
        /\ ~tid.err
        /\ tid.id \in TablesOfWireCode(rec.Code)

(* ------------------------------------------------------------------ *)
(* Properties of the table lookups                                     *)
(* ------------------------------------------------------------------ *)
KnownNames == {metricsTableNames[i] : i \in DOMAIN metricsTableNames}

\* C5: MetricsTableNameToID returns METRICS_TABLE_ID_MAX for every name that
\* is no table name, and TableCode returns without panicking for every
\* identifier, those at or above METRICS_TABLE_ID_MAX included.
C5_LookupsTotal ==
    /\ (idRes.valid /\ idRes.name \notin KnownNames) => idRes.id = METRICS_TABLE_ID_MAX
    /\ codeRes.valid => ~codeRes.panic

\* C6: for every identifier i of the enumeration, looking up the name of i
\* gives i back, and the name of the identifier found is the name looked up.
C6_NameRoundTrip ==
    \A i \in NETWORK_1M..(METRICS_TABLE_ID_MAX - 1) :
        (idRes.valid /\ ~TableName(i).panic /\ idRes.name = TableName(i).name) =>
            /\ idRes.id = i
            /\ TableName(idRes.id) = [panic |-> FALSE, name |-> idRes.name]

\* C6 witness: the name TableName gave for a second-granularity table was
\* looked up and led back to that table
C6_Witness ==
    /\ nameRes.valid /\ ~nameRes.panic /\ nameRes.id = NETWORK_1S
    /\ idRes.valid /\ idRes.name = nameRes.name /\ idRes.id = NETWORK_1S

(* ------------------------------------------------------------------ *)
(* Properties of the pools                                             *)
(* ------------------------------------------------------------------ *)
\* The instance i as its holder reads it after the step
ViewNext(i) == View(objs'[i], bufs')

\* C7: every instance AcquireField / AcquireTag returns (every instance a
\* worker comes to hold other than as the clone made inside CloneField /
\* CloneTag) has all fields at their zero value: nil IP6 and IP61, and for a
\* Tag the Code 0 and the empty id.
C7_AcquireReturnsZero ==
    [][\A w \in Workers, i \in Inst :
          (i \in held'[w] /\ i \notin held[w] /\ origin'[i] = Nil) =>
              objs'[i] = ZeroObj(kind)]_vars

\* C7 witness: a worker holds an instance that the last step took out of the
\* pool, after an earlier use and release, and it is zero-valued
C7_Witness ==
    /\ got # Nil
    /\ \E w \in Workers : got \in held[w]
    /\ objs[got] = ZeroObj(kind)

\* C8: releasing nil or an instance that has been released already changes
\* nothing, so the pool never holds an instance twice and no instance comes
\* to be held by two workers.
C8_SecondReleaseIsNoop ==
    /\ \A i \in Inst : pool[i] <= 1
    /\ \A w1, w2 \in Workers : w1 # w2 => held[w1] \cap held[w2] = {}

C10_CloneFieldIndependent ==
    [][kind = "field" =>
          \A c \in Inst :
             /\ (origin'[c] # Nil /\ origin[c] = Nil) =>
                   /\ ViewNext(c) = ViewNext(origin'[c])
                   /\ ViewNext(origin'[c]) = ViewOf(origin'[c])
             /\ (origin[c] # Nil /\ origin'[c] = origin[c]) =>
                   ~(ViewNext(c) # ViewOf(c) /\ ViewNext(origin[c]) # ViewOf(origin[c]))]_vars

\* C10 witness: the clone of a Field with non-nil IP6 and IP61 was written
\* after the clone was made; its bytes differ from those of the original
C10_Witness ==
    /\ kind = "field"
    /\ \E c \in Inst :
          /\ origin[c] # Nil
          /\ objs[origin[c]].IP6 # NilRef /\ objs[origin[c]].IP61 # NilRef
          /\ objs[c].IP6 # NilRef
          /\ ViewOf(c).IP6 # ViewOf(origin[c]).IP6
          /\ ViewOf(c).PodID # ViewOf(origin[c]).PodID

\* The IPv6 addresses of the instance i as its holder reads them
IPsOf(i) == <<ViewOf(i).IP6, ViewOf(i).IP61>>

IPsNext(i) == <<ViewNext(i).IP6, ViewNext(i).IP61>>

\* C11: right after c = CloneTag(t) the clone has the addresses of t, and from
\* then on no step that writes the IP6 / IP61 bytes of one of the two changes
\* the IP6 / IP61 the other reads.
C11_CloneTagIndependent ==
    [][kind = "tag" =>
          \A c \in Inst :
             /\ (origin'[c] # Nil /\ origin[c] = Nil) => IPsNext(c) = IPsNext(origin'[c])
             /\ (origin[c] # Nil /\ origin'[c] = origin[c]) =>
                   ~(IPsNext(c) # IPsOf(c) /\ IPsNext(origin[c]) # IPsOf(origin[c]))]_vars

(* ------------------------------------------------------------------ *)
(* Properties of the text forms                                        *)
(* ------------------------------------------------------------------ *)
\* C12: the text of a signed 16-bit identifier is "-1" / "-2" for the two
\* sentinels and else the decimal of the value taken as unsigned 16-bit, and
\* parsing that text gives the identifier back without error.
C12_SpecialIDRoundTrip ==
    /\ sid.valid =>
          sid.text = (IF sid.v = ID_OTHER THEN "-1"
                      ELSE IF sid.v = ID_INTERNET THEN "-2"
                      ELSE FormatUint(IF sid.v < 0 THEN sid.v + 65536 ELSE sid.v))
    /\ (sid.valid /\ usid.valid /\ usid.s = sid.text) =>
          ~usid.err /\ usid.val = sid.v

\* C12 witness: -3 was written as "65533" and read back as -3
C12_Witness ==
    /\ sid.valid /\ sid.v = -3 /\ sid.text = "65533"
    /\ usid.valid /\ usid.s = sid.text /\ usid.val = -3 /\ ~usid.err

\* C18: parsing the text marshalUint16s gave for a list returns that list
\* and no error, the empty list included.
C18_Uint16sRoundTrip ==
    (ms.valid /\ ums.valid /\ ums.s = ms.text) =>
        ~ums.err /\ ums.list = ms.vs

\* A token that is no decimal integer: empty, or with a character that is
\* neither a digit nor a leading sign
Malformed(tok) ==
    \/ Len(tok) = 0
    \/ \E i \in 1..Len(tok) :
          /\ CharAt(tok, i) \notin DOMAIN DigitVal
          /\ ~(i = 1 /\ Len(tok) > 1 /\ CharAt(tok, i) \in {"+", "-"})

\* C19: a text with a token that is no decimal integer makes unmarshalUint16s
\* return an error and an empty list, and a text that is no number makes
\* unmarshalUint16WithSpecialID return an error.
C19_MalformedRejected ==
    /\ (ums.valid /\ \E i \in DOMAIN Split(ums.s) : Malformed(Split(ums.s)[i])) =>
          ums.err /\ ums.list = <<>>
    /\ (usid.valid /\ Malformed(usid.s)) => usid.err

(* ------------------------------------------------------------------ *)
(* Properties of the encoder's address and side segments               *)
(* ------------------------------------------------------------------ *)
\* The positions where segs has "ip=<v>" directly followed by "ip_version=<ver>"
IPPairs(segs, v, ver) ==
    {i \in 1..(Len(segs) - 1) :
        /\ segs[i] = [key |-> "ip", val |-> v]
        /\ segs[i + 1] = [key |-> "ip_version", val |-> ver]}

\* C13: for a Tag with the IP bit, MarshalTo writes "ip" once, as
\* "ip=<dotted IP>,ip_version=4" when IsIPv4 != 0 and as
\* "ip=<IP6 text>,ip_version=6" when IsIPv4 = 0; with GlobalThreadID 0 and
\* Code = IP|ServerPort on an IPv4 Tag the whole text is
\* ",ip=<v4>,ip_version=4,server_port=<port>".
C13_IPSegment ==
    (out.valid /\ IP \in tag.Code) =>
        /\ Cardinality({i \in DOMAIN out.segs : out.segs[i].key = "ip"}) = 1
        /\ IF tag.IsIPv4 # 0
           THEN Cardinality(IPPairs(out.segs, IpFromUint32String(tag.IP), "4")) = 1
           ELSE Cardinality(IPPairs(out.segs, IP6String(tag.IP6), "6")) = 1
        /\ (tag.GlobalThreadID = 0 /\ tag.Code = {IP, ServerPort} /\ tag.IsIPv4 # 0) =>
              SegsText(out.segs) = ",ip=" \o IpFromUint32String(tag.IP)
                                   \o ",ip_version=4,server_port="
                                   \o FormatUint(tag.ServerPort)

\* C13 witness: the IPv4 Tag 192.0.2.1 port 8080 with Code = IP|ServerPort
C13_Witness ==
    /\ out.valid /\ tag.Code = {IP, ServerPort}
    /\ tag.IsIPv4 = 1 /\ tag.GlobalThreadID = 0
    /\ SegsText(out.segs) = ",ip=192.0.2.1,ip_version=4,server_port=8080"

\* C14: with the TAPSide bit, MarshalTo writes one segment
\* "observation_point=<TAPSideEnumsString entry>" when the Tag's TAPSide has
\* an entry in TAPSideEnumsString, and no observation_point segment when it
\* has none.
C14_ObservationPoint ==
    (out.valid /\ TAPSide \in tag.Code) =>
        LET at == {i \in DOMAIN out.segs : out.segs[i].key = "observation_point"}
        IN  IF tag.TAPSide \in DOMAIN TAPSideEnumsStringNamed
            THEN /\ Cardinality(at) = 1
                 /\ \A i \in at : out.segs[i].val = TAPSideEnumsStringNamed[tag.TAPSide]
            ELSE at = {}

(* ------------------------------------------------------------------ *)
(* Properties of the decoder                                           *)
(* ------------------------------------------------------------------ *)
\* C15: ReadFromPB completes without a panic for every inbound record,
\* whatever its side byte and however short its Ip / Ip1 bytes are.
C15_ReadFromPBTotal == src # "panic"

(* ------------------------------------------------------------------ *)
(* Properties of the table definitions                                 *)
(* ------------------------------------------------------------------ *)
\* The minute tables GetMetricsTables built with newMetricsMinuteTable
MinuteTables ==
    {metricsTables.tables[i] : i \in {j \in DOMAIN metricsTables.tables : j <= 5}}

EpcPrefix == <<"l3_epc_id", "ip4", "ip6">>
EpcPathPrefix == <<"l3_epc_id_1", "ip4_1", "ip6_1", "l3_epc_id_0", "ip4_0", "ip6_0">>
AclPrefix == <<"acl_gid">>

\* C16: the OrderKeys of every minute table are "time", then the prefix of the
\* first of the bits L3EpcID, L3EpcIDPath, ACLGID its code has, then
\* "server_port" iff its code has the ServerPort bit; at most one of the three
\* bits is in a table code; PrimaryKeyCount is the number of order keys.
C16_MinuteOrderKeys ==
    metricsTables.valid =>
        \A t \in MinuteTables :
            LET code == metricsTableCodes[t.ID]
                prefix == IF L3EpcID \in code THEN EpcPrefix
                          ELSE IF L3EpcIDPath \in code THEN EpcPathPrefix
                          ELSE AclPrefix
            IN  /\ Cardinality(code \cap {L3EpcID, L3EpcIDPath, ACLGID}) = 1
                /\ t.OrderKeys = <<"time">> \o prefix
                                 \o (IF ServerPort \in code THEN <<"server_port">> ELSE <<>>)
                /\ t.PrimaryKeyCount = Len(t.OrderKeys)

\* C16 witness: the five minute tables are built; network.1m is ordered by
\* time, l3_epc_id, ip4, ip6, server_port and traffic_policy.1m by time, acl_gid
C16_Witness ==
    /\ metricsTables.valid /\ ~metricsTables.panic
    /\ Cardinality(MinuteTables) = 5
    /\ \E t \in MinuteTables :
          /\ t.GlobalName = "network.1m"
          /\ t.OrderKeys = <<"time", "l3_epc_id", "ip4", "ip6", "server_port">>
          /\ t.PrimaryKeyCount = 5
    /\ \E t \in MinuteTables :
          /\ t.GlobalName = "traffic_policy.1m"
          /\ t.OrderKeys = <<"time", "acl_gid">>

\* C17: Aggr1H1D of a minute table is true iff its order keys start with an
\* EPC/IP prefix; the table of TRAFFIC_POLICY has the order keys (time,
\* acl_gid) and Aggr1H1D false.
C17_Aggr1H1D ==
    metricsTables.valid =>
        \A t \in MinuteTables :
            /\ t.Aggr1H1D <=>
                  \/ (Len(t.OrderKeys) >= 4 /\ SubSeq(t.OrderKeys, 2, 4) = EpcPrefix)
                  \/ (Len(t.OrderKeys) >= 7 /\ SubSeq(t.OrderKeys, 2, 7) = EpcPathPrefix)
            /\ t.ID = TRAFFIC_POLICY_1M =>
                  /\ ACLGID \in metricsTableCodes[t.ID]
                  /\ {L3EpcID, L3EpcIDPath} \cap metricsTableCodes[t.ID] = {}
                  /\ t.OrderKeys = <<"time", "acl_gid">>
                  /\ ~t.Aggr1H1D

\* C17 witness: network_map.1m is built with Aggr1H1D true and
\* traffic_policy.1m with Aggr1H1D false
C17_Witness ==
    /\ metricsTables.valid
    /\ \E t \in MinuteTables :
          t.ID = NETWORK_MAP_1M /\ t.Aggr1H1D /\ t.OrderKeys[2] = "l3_epc_id_1"
    /\ \E t \in MinuteTables :
          t.ID = TRAFFIC_POLICY_1M /\ ~t.Aggr1H1D /\ t.OrderKeys = <<"time", "acl_gid">>

(* ------------------------------------------------------------------ *)
(* Properties of the decoded pod identifier                            *)
(* ------------------------------------------------------------------ *)
\* C20: ReadFromPB into a zero-valued Tag of a record with a nonzero pod
\* identifier sets PodID1 to it and leaves PodID 0 when the record's code has
\* the IPPath bit and its direction gives ROLE_SERVER, and in every other case
\* sets PodID to it and leaves PodID1 0.
C20_PodSide ==
    [][(src = "zero" /\ src' = "pb" /\ rec'.PodId # 0) =>
          IF IPPath \in rec'.Code /\ ToRole(rec'.Direction % 256) = ROLE_SERVER
          THEN tag'.PodID1 = rec'.PodId /\ tag'.PodID = 0
          ELSE tag'.PodID = rec'.PodId /\ tag'.PodID1 = 0]_vars

\* C20 witness: an edge record of a server-side direction with pod 9 is
\* decoded, and the pod identifier is on side 1
C20_Witness ==
    /\ src = "pb" /\ IPPath \in rec.Code /\ rec.PodId = 9
    /\ ToRole(rec.Direction % 256) = ROLE_SERVER
    /\ tag.PodID1 = 9 /\ tag.PodID = 0

(* ------------------------------------------------------------------ *)
(* Properties of the order of columns and segments                     *)
(* ------------------------------------------------------------------ *)
\* The block of a Code bit in a list of blocks
BlockOf(blocks, bit) == blocks[CHOOSE i \in DOMAIN blocks : blocks[i].bit = bit]

\* Where the first segment MarshalTo wrote for a bit stands in out.segs, and
\* where the first column GenTagColumns gave for it stands in cols.names
SegPos(bit) ==
    CHOOSE i \in DOMAIN out.segs :
        out.segs[i].key = BlockOf(MarshalBlocks(tag), bit).segs[1].key

ColPos(bit) ==
    CHOOSE i \in DOMAIN cols.names : cols.names[i] = BlockOf(ColumnBlocks, bit).segs[1]

\* C21: a bit of the Code gives columns in GenTagColumns iff it gives
\* segments in MarshalTo, and of two bits that give both, the columns of the
\* one precede the columns of the other iff its segments precede the other's.
C21_SameBitOrder ==
    (out.valid /\ cols.valid) =>
        /\ \A a \in tag.Code :
              (BlockOf(ColumnBlocks, a).segs # <<>>)
                 <=> (BlockOf(MarshalBlocks(tag), a).segs # <<>>)
        /\ \A a, b \in tag.Code :
              (/\ BlockOf(ColumnBlocks, a).segs # <<>>
               /\ BlockOf(ColumnBlocks, b).segs # <<>>
               /\ BlockOf(MarshalBlocks(tag), a).segs # <<>>
               /\ BlockOf(MarshalBlocks(tag), b).segs # <<>>)
              => ((ColPos(a) < ColPos(b)) <=> (SegPos(a) < SegPos(b)))

(* ------------------------------------------------------------------ *)
(* Properties of the EPC identifiers                                   *)
(* ------------------------------------------------------------------ *)
\* The text the EPC identifier v is meant to have: "-1" or "-2", else the
\* decimal of v taken as an unsigned 16-bit number
EpcText(v) == IF v \in {ID_OTHER, ID_INTERNET} THEN FormatInt(v) ELSE FormatUint(v % 65536)

\* C22: the value MarshalTo writes for l3_epc_id (L3EpcID bit) and for
\* l3_epc_id_0 / l3_epc_id_1 (L3EpcIDPath bit) is "-1", "-2", or the field
\* taken as unsigned 16-bit, a decimal of 0..65535.
C22_EpcTextRange ==
    out.valid =>
        \A i \in DOMAIN out.segs :
            /\ out.segs[i].key \in {"l3_epc_id", "l3_epc_id_0"} =>
                  out.segs[i].val = EpcText(tag.L3EpcID)
            /\ out.segs[i].key = "l3_epc_id_1" =>
                  out.segs[i].val = EpcText(tag.L3EpcID1)

\* C23: after ReadFromPB, L3EpcID and L3EpcID1 are in -2..65533.
C23_EpcRange ==
    src = "pb" =>
        /\ tag.L3EpcID \in ID_INTERNET..(MaxUint16 - 2)
        /\ tag.L3EpcID1 \in ID_INTERNET..(MaxUint16 - 2)

(* ------------------------------------------------------------------ *)
(* Properties of the edge addresses                                    *)
(* ------------------------------------------------------------------ *)
\* C24: with the IPPath bit, MarshalTo writes ip_0 and ip_1, both dotted
\* IPv4 when IsIPv4 != 0 and both IPv6 text when IsIPv4 = 0, directly followed
\* by one segment ip_version=4 or ip_version=6 that agrees with IsIPv4.
C24_EdgeAddresses ==
    (out.valid /\ IPPath \in tag.Code) =>
        LET at == {i \in DOMAIN out.segs : out.segs[i].key = "ip_0"}
        IN  /\ Cardinality(at) = 1
            /\ \A i \in at :
                  /\ i + 2 <= Len(out.segs)
                  /\ out.segs[i].val = (IF tag.IsIPv4 # 0 THEN IpFromUint32String(tag.IP)
                                        ELSE IP6String(tag.IP6))
                  /\ out.segs[i + 1] =
                        [key |-> "ip_1",
                         val |-> IF tag.IsIPv4 # 0 THEN IpFromUint32String(tag.IP1)
                                 ELSE IP6String(tag.IP61)]
                  /\ out.segs[i + 2] =
                        [key |-> "ip_version", val |-> IF tag.IsIPv4 # 0 THEN "4" ELSE "6"]

\* The name n without its last three characters (".1m", ".1s")
Family(n) == SubSeq(n, 1, Len(n) - 3)

\* C25: the i-th second table GetMetricsTables returns is made from the i-th
\* minute table: ID plus NETWORK_1S, the ".1s" names of the same family, the
\* same columns and order keys, the second TTL of the family, the four-hour
\* partition function and Aggr1H1D false; the minute table keeps its ID, its
\* ".1m" names, the minute TTL, the twelve-hour partition function and its
\* Aggr1H1D.
C25_SecondFromMinute ==
    metricsTables.valid =>
        /\ Len(metricsTables.tables) = 9
        /\ \A i \in 1..4 :
              LET mt == metricsTables.tables[i]
                  st == metricsTables.tables[5 + i]
                  p == metricsTables.params
              IN  /\ st.ID = mt.ID + NETWORK_1S
                  /\ st.GlobalName = Family(mt.GlobalName) \o ".1s"
                  /\ st.GlobalName = metricsTableNames[st.ID]
                  /\ st.LocalName = <<st.GlobalName, "LOCAL_SUBFFIX">>
                  /\ st.Columns = mt.Columns
                  /\ st.OrderKeys = mt.OrderKeys
                  /\ st.TTL = (IF i <= 2 THEN p.flowSecondTtl ELSE p.appSecondTtl)
                  /\ st.PartitionFunc = "TimeFuncFourHour"
                  /\ ~st.Aggr1H1D
                  /\ mt.ID = i - 1
                  /\ mt.GlobalName = Family(mt.GlobalName) \o ".1m"
                  /\ mt.LocalName = <<mt.GlobalName, "LOCAL_SUBFFIX">>
                  /\ mt.TTL = (IF i <= 2 THEN p.flowMinuteTtl ELSE p.appMinuteTtl)
                  /\ mt.PartitionFunc = "TimeFuncTwelveHour"
                  /\ mt.Aggr1H1D

\* C25 witness: with second TTLs 1 (flow) and 24 (application) the tables
\* network_map.1s and application.1s are built from their minute tables
C25_Witness ==
    /\ metricsTables.valid /\ ~metricsTables.panic
    /\ metricsTables.params.flowSecondTtl = 1 /\ metricsTables.params.appSecondTtl = 24
    /\ metricsTables.params.flowMinuteTtl = 168
    /\ metricsTables.tables[7].GlobalName = "network_map.1s"
    /\ metricsTables.tables[7].TTL = 1 /\ metricsTables.tables[2].TTL = 168
    /\ metricsTables.tables[8].GlobalName = "application.1s"
    /\ metricsTables.tables[8].TTL = 24
    /\ metricsTables.tables[8].OrderKeys = metricsTables.tables[3].OrderKeys

(* ------------------------------------------------------------------ *)
(* Properties of the decoded Code                                      *)
(* ------------------------------------------------------------------ *)
\* C26: after ReadFromPB the Code is the wire code with GPIDPath and
\* SignalSource added when the wire code has IPPath, with GPID and
\* SignalSource added when it has no IPPath and is not TRAFFIC_POLICY, and the
\* wire code itself when it is TRAFFIC_POLICY; decoding a record that carries
\* the decoded Code gives that Code again.
C26_CompatRule ==
    src = "pb" =>
        /\ tag.Code = rec.Code \cup
              (IF IPPath \in rec.Code THEN {GPIDPath, SignalSource}
               ELSE IF rec.Code # TRAFFIC_POLICY THEN {GPID, SignalSource}
               ELSE {})
        /\ ReadFromPB(ZeroTag, [rec EXCEPT !.Code = tag.Code]).tag.Code = tag.Code

\* C26 witness: a network_map record of an old agent, without the GPIDPath
\* and SignalSource bits, is decoded to the Code NETWORK_MAP
C26_Witness ==
    /\ src = "pb"
    /\ rec.Code = NETWORK_MAP \ {GPID, GPIDPath, SignalSource}
    /\ tag.Code = NETWORK_MAP

(* ------------------------------------------------------------------ *)
(* Properties of the Code layout and of the direction predicates       *)
(* ------------------------------------------------------------------ *)
\* Each primary flag with the path flag of the same name
FlagPairs ==
    {<<IP, IPPath>>, <<L3EpcID, L3EpcIDPath>>, <<L3Device, L3DevicePath>>,
     <<SubnetID, SubnetIDPath>>, <<RegionID, RegionIDPath>>,
     <<PodNodeID, PodNodeIDPath>>, <<HostID, HostIDPath>>, <<AZID, AZIDPath>>,
     <<PodGroupID, PodGroupIDPath>>, <<PodNSID, PodNSIDPath>>, <<PodID, PodIDPath>>,
     <<MAC, MACPath>>, <<PodClusterID, PodClusterIDPath>>,
     <<ServiceID, ServiceIDPath>>, <<Resource, ResourcePath>>, <<GPID, GPIDPath>>}

\* C27: the 44 named flags have 44 different bit positions, primary flags in
\* 0..19, path flags in 20..39, extended flags in 40..62; a path flag is its
\* primary flag shifted left by 20; HasEdgeTagField is true iff the Code has a
\* bit of 20..39.
C27_CodeLayout ==
    edge.valid =>
        /\ Cardinality(PrimaryFlags) = 16 /\ Cardinality(PathFlags) = 16
        /\ Cardinality(ExtendedFlags) = 12 /\ Cardinality(AllFlags) = 44
        /\ PrimaryFlags \subseteq 0..19
        /\ PathFlags \subseteq 20..39
        /\ ExtendedFlags \subseteq 40..62
        /\ {q[1] : q \in FlagPairs} = PrimaryFlags
        /\ {q[2] : q \in FlagPairs} = PathFlags
        /\ \A q \in FlagPairs : q[2] = q[1] + 20
        /\ edge.res <=> (\E b \in edge.code : b >= 20 /\ b <= 39)

\* C27 witness: HasEdgeTagField was asked about the Code of the single flag
\* IPPath (true) -- the lowest bit of the mask
C27_Witness == edge.valid /\ edge.code = {IPPath} /\ edge.res

\* C29: IsGateway is true iff the side type of the direction, its bits 3..7,
\* is GatewaySide or GatewayHypervisorSide.
C29_IsGateway ==
    gw.valid =>
        (gw.res <=> (gw.d - (gw.d % 8)) \in {GatewaySide, GatewayHypervisorSide})

(* ------------------------------------------------------------------ *)
(* Properties of the table identifier of a Tag                         *)
(* ------------------------------------------------------------------ *)
\* C28: an identifier TableID returns with a nil error is below
\* METRICS_TABLE_ID_MAX, its table code is the Tag's Code without MAC and
\* MACPath, and for isSecond it is the identifier of a second table.
C28_TableIDValid ==
    (tid.valid /\ ~tid.err) =>
        /\ tid.id < METRICS_TABLE_ID_MAX
        /\ metricsTableCodes[tid.id] = tag.Code \ {MAC, MACPath}
        /\ tid.isSecond => tid.id \in NETWORK_1S..APPLICATION_MAP_1S

(* ------------------------------------------------------------------ *)
(* Properties of decoding into a used Tag                              *)
(* ------------------------------------------------------------------ *)
\* C30: what MarshalTo writes after ReadFromPB of a record is what it writes
\* after ReadFromPB of that record into a zero-valued Tag, whatever the Tag
\* held before.
C30_DecodeIgnoresHistory ==
    (src = "pb" /\ out.valid) =>
        out.segs = MarshalTo(ReadFromPB(ZeroTag, rec).tag)

====
